---------------------------- MODULE Spec2Model ----------------------------
(***************************************************************************)
(* A model of Line Battles (src/main.py): the wave scheduler (Level), the  *)
(* spawn points (SpawnPoint), the collision space (CollisionSpace) and the *)
(* frame loop (Main).                                                      *)
(*                                                                         *)
(* Conventions.                                                            *)
(*  - The clock `now` is pygame.time.get_ticks(); one unit is 100 ms.      *)
(*    One call of a handler reads one clock value.                         *)
(*  - Python's False is the integer 0 (False == 0, and both are falsy),    *)
(*    so Level.paused, which holds False or a timestamp, is an integer     *)
(*    and `if self.paused` is `paused # 0`.                                *)
(*  - Python lists are sequences; list index i is sequence index i + 1.    *)
(*  - Positions are integers.  Headings are integers counting quarter      *)
(*    turns (pi/2), not normalised, so cos and sin are exact: the random   *)
(*    draws and the inputs are the ones that keep headings on the axes.    *)
(***************************************************************************)
EXTENDS Integers, Sequences, FiniteSets, TLC

VARIABLES
  now,           \* pygame.time.get_ticks()
  levels,        \* Main.levels: sequence of Level objects
  lev_i,         \* Main.lev_i
  spawn_points,  \* Main.spawn_points: 0..3 -> SpawnPoint object
  baddies,       \* CollisionSpace.baddies, the hostile pool (shared with the spawn points)
  bullets,       \* CollisionSpace.bullets, the player-bullet pool
  bins,          \* CollisionSpace.bins
  player,        \* Main.player
  winner,        \* Main.winner
  paused,        \* Main.paused
  nextId,        \* identity of the next object created
  last,          \* the operation performed by the last step
  obs            \* observations of the run (history), read by the properties only

vars == <<now, levels, lev_i, spawn_points, baddies, bullets, bins, player,
          winner, paused, nextId, last, obs>>

----------------------------------------------------------------------------
(* Bounds of the model *)

MaxClock == 12
MaxStep == 5
MaxQueue == 6
MaxBaddies == 3

----------------------------------------------------------------------------
(* Program constants *)

\* Main.__init__ / parse_args: the arena (options.size), here 150 x 100
Width == 150
Height == 100
\* Level._p: the delay of the sentinel entry (9e9999, the float infinity)
Inf == 1000000
\* SpawnPoint.tick: random.randrange(100) < 20
SpawnChance == 20

BaddieTypes == {"Wiggler", "FastWiggler", "Homer", "Shooter"}
SpawnIdx == 0 .. 3
None == [none |-> TRUE]

RECURSIVE SumSeq(_)
SumSeq(s) == IF s = <<>> THEN 0 ELSE Head(s) + SumSeq(Tail(s))

Abs(x) == IF x < 0 THEN -x ELSE x

\* F applied to the value of v (v is computed once, then bound)
With(v, F(_)) == CHOOSE r \in {F(x) : x \in {v}} : TRUE

\* math.atan2(dy, dx) in quarter turns: exact on the axes, the nearer axis
\* elsewhere (range (-pi, pi], so "up" is -1)
Atan2Q(dy, dx) ==
  IF Abs(dx) >= Abs(dy)
  THEN (IF dx >= 0 THEN 0 ELSE 2)
  ELSE (IF dy > 0 THEN 1 ELSE -1)

----------------------------------------------------------------------------
(* Spawn points *)

\* SpawnPoint.__init__ (pos as Main.__init__ passes it)
SpawnPos(s) ==
  CASE s = 0 -> <<0, 0>>
    [] s = 1 -> <<0, Height>>
    [] s = 2 -> <<Width, 0>>
    [] s = 3 -> <<Width, Height>>

\* SpawnPoint.__init__: self.traj = math.atan2(size[0] / 2 - y, size[1] / 2 - x)
SpawnTraj(s) ==
  Atan2Q((Width \div 2) - SpawnPos(s)[2], (Height \div 2) - SpawnPos(s)[1])

SpawnPointInit == [queue |-> <<>>, paused |-> FALSE]

\* Baddie.__init__ via Ship.__init__: a fresh ship of class `kind`
NewBaddie(id, kind, pos, traj) ==
  [id |-> id, kind |-> kind, pos |-> pos, traj |-> traj, off |-> 0,
   rect |-> None, last_fired |-> 0, side |-> "none"]

SpawnPoint_pause(sp) == [sp EXCEPT !.paused = TRUE]

SpawnPoint_resume(sp) == [sp EXCEPT !.paused = FALSE]

SpawnPoint_queue_spawn(sp, baddie_type) ==
  [sp EXCEPT !.queue = Append(@, baddie_type)]

SpawnPoint_clear(sp) == [sp EXCEPT !.queue = <<>>]

\* SpawnPoint.spawn: the pool with one more baddie, created at the spawn point
SpawnPoint_spawn(s, pool, id, baddie_type) ==
  Append(pool, NewBaddie(id, baddie_type, SpawnPos(s), SpawnTraj(s)))

\* mutant of SpawnPoint_tick: the newest order is spawned and removed
SpawnPoint_tick_newest(s, sp, pool, id, draw) ==
  IF sp.paused THEN [sp |-> sp, pool |-> pool]
  ELSE IF Len(sp.queue) > 0 /\ draw < SpawnChance
  THEN [sp   |-> [sp EXCEPT !.queue = SubSeq(@, 1, Len(@) - 1)],
        pool |-> SpawnPoint_spawn(s, pool, id, sp.queue[Len(sp.queue)])]
  ELSE [sp |-> sp, pool |-> pool]

\* mutant of SpawnPoint_tick: the pause flag is not read
SpawnPoint_tick_unpaused(s, sp, pool, id, draw) ==
  IF Len(sp.queue) > 0 /\ draw < SpawnChance
  THEN [sp   |-> [sp EXCEPT !.queue = Tail(@)],
        pool |-> SpawnPoint_spawn(s, pool, id, Head(sp.queue))]
  ELSE [sp |-> sp, pool |-> pool]

\* SpawnPoint.tick of spawn point s; `draw` is random.randrange(100), `id` the
\* identity of the baddie if one is created
SpawnPoint_tick(s, sp, pool, id, draw) ==
  IF sp.paused THEN [sp |-> sp, pool |-> pool]
  ELSE IF Len(sp.queue) > 0 /\ draw < SpawnChance
  THEN [sp   |-> [sp EXCEPT !.queue = Tail(@)],
        pool |-> SpawnPoint_spawn(s, pool, id, Head(sp.queue))]
  ELSE [sp |-> sp, pool |-> pool]

----------------------------------------------------------------------------
(* Levels *)

\* one wave entry of a progression: (delay, spawn point index, type, count)
Entry(d, s, t, c) == [delay |-> d, spawn |-> s, type |-> t, count |-> c]

\* Level.__init__
LevelInit(progression) ==
  [progression |-> progression, prog_i |-> -1, paused |-> 0, start_time |-> 0]

Level_started(L) == L.prog_i >= 0

Level_done(L) == L.prog_i >= Len(L.progression)

\* Level._p: the current entry, or the sentinel (9e9999,-1,None,0)
Level_p(L) ==
  IF L.prog_i < Len(L.progression)
  THEN L.progression[L.prog_i + 1]
  ELSE Entry(Inf, -1, "None", 0)

\* mutant of Level_start: the index starts at the second entry
Level_start_skip(L, t) == [L EXCEPT !.paused = 0, !.prog_i = 1, !.start_time = t]

\* Level.start
Level_start(L, t) == [L EXCEPT !.paused = 0, !.prog_i = 0, !.start_time = t]

\* Level.pause: the timestamp is the flag
Level_pause(L, SP, t) ==
  [level |-> [L EXCEPT !.paused = t],
   spawns |-> [s \in DOMAIN SP |-> SpawnPoint_pause(SP[s])]]

\* Level.resume stepping back to the entry before the current one
Level_resume_back(L, SP, t) ==
  [level |-> [L EXCEPT !.start_time = @ + (t - L.paused), !.paused = 0,
                       !.prog_i = IF @ > 0 THEN @ - 1 ELSE @],
   spawns |-> [s \in DOMAIN SP |-> SpawnPoint_resume(SP[s])]]

\* Level.resume
Level_resume(L, SP, t) ==
  [level |-> [L EXCEPT !.start_time = @ + (t - L.paused), !.paused = 0],
   spawns |-> [s \in DOMAIN SP |-> SpawnPoint_resume(SP[s])]]

\* Level.tick, the inner loop: for i in xrange(self._p()[3]): queue_spawn(...)
RECURSIVE QueueCopies(_, _, _, _)
QueueCopies(SP, s, baddie_type, n) ==
  IF n <= 0 THEN SP
  ELSE With([SP EXCEPT ![s] = SpawnPoint_queue_spawn(@, baddie_type)],
            LAMBDA SP1 : QueueCopies(SP1, s, baddie_type, n - 1))

\* mutant of Level_tick_loop: the comparison is strict (< instead of <=)
RECURSIVE Level_tick_loop_strict(_, _, _)
Level_tick_loop_strict(L, SP, t) ==
  IF Level_p(L).delay < t - L.start_time
  THEN With(QueueCopies(SP, Level_p(L).spawn, Level_p(L).type, Level_p(L).count),
            LAMBDA SP1 : Level_tick_loop_strict([L EXCEPT !.prog_i = @ + 1], SP1, t))
  ELSE [level |-> L, spawns |-> SP]

\* Level.tick, the outer loop: while self._p()[0] <= get_ticks() - self.start_time
RECURSIVE Level_tick_loop(_, _, _)
Level_tick_loop(L, SP, t) ==
  IF Level_p(L).delay <= t - L.start_time
  THEN With(QueueCopies(SP, Level_p(L).spawn, Level_p(L).type, Level_p(L).count),
            LAMBDA SP1 : Level_tick_loop([L EXCEPT !.prog_i = @ + 1], SP1, t))
  ELSE [level |-> L, spawns |-> SP]

\* Level.tick
Level_tick(L, SP, t) ==
  IF L.paused # 0 THEN [level |-> L, spawns |-> SP]
  ELSE IF L.prog_i < Len(L.progression) THEN Level_tick_loop(L, SP, t)
  ELSE [level |-> L, spawns |-> SP]

\* mutant of Level_jump_to_next_wave: the start timestamp is not rewound
Level_jump_no_rewind(L, SP, t) == Level_tick(L, SP, t)

\* Level.jump_to_next_wave
Level_jump_to_next_wave(L, SP, t) ==
  LET L1 == IF L.prog_i # 0 /\ L.prog_i < Len(L.progression)
            THEN [L EXCEPT !.start_time = t - Level_p(L).delay]
            ELSE L
  IN  Level_tick(L1, SP, t)

----------------------------------------------------------------------------
(* Entities: classes, shapes, rectangles, movement *)

UpgradeKinds == {"BulletUpgrade", "SpeedUpgrade", "ShieldUpgrade"}

IsBaddie(e) == e.kind \in BaddieTypes
IsUpgrade(e) == e.kind \in UpgradeKinds
IsBullet(e) == e.kind = "Bullet"
IsShip(e) == e.kind \in BaddieTypes \cup {"Player"}

\* Ship.__init__ size argument: 5 for the player and for every baddie
ShipSize == 5
\* Bullet.__init__: self.speed
BulletSpeed == 8
\* Shooter.FIRE_RATE, 4000 ms
FireRate == 40
\* Player.reset: self.fire_delay, 100 ms
FireDelay == 1
\* CollisionSpace.BINSIZE
BinSize == 50
\* CollisionSpace.BUFSIZE = .2, as the fraction 1 / BufDen
BufDen == 5

\* the `points` each class passes to Ship.__init__
Points(kind) ==
  CASE kind = "Player" ->
         <<<<0, -1>>, <<2, -1>>, <<0, -2>>, <<-2, -1>>,
           <<-2, 1>>, <<0, 2>>, <<2, 1>>, <<0, 1>>>>
    [] kind \in {"Wiggler", "FastWiggler"} ->
         <<<<1, 1>>, <<1, -1>>, <<-1, -1>>, <<-1, 1>>>>
    [] kind = "Homer" -> <<<<2, 0>>, <<0, -1>>, <<-2, 0>>, <<0, 1>>>>
    [] kind = "Shooter" -> <<<<1, 0>>, <<-1, -1>>, <<-1, 1>>>>

\* self.speed of each baddie class
BaddieSpeed(kind) ==
  CASE kind = "Wiggler" -> 1
    [] kind = "FastWiggler" -> 2
    [] kind = "Homer" -> 2
    [] kind = "Shooter" -> 2

\* self.score of each baddie class
BaddieScore(kind) ==
  CASE kind = "Wiggler" -> 200
    [] kind = "FastWiggler" -> 400
    [] kind = "Homer" -> 100
    [] kind = "Shooter" -> 200

\* math.cos and math.sin of a heading given in quarter turns
Cos(q) == CASE q % 4 = 0 -> 1 [] q % 4 = 1 -> 0 [] q % 4 = 2 -> -1 [] q % 4 = 3 -> 0
Sin(q) == CASE q % 4 = 0 -> 0 [] q % 4 = 1 -> 1 [] q % 4 = 2 -> 0 [] q % 4 = 3 -> -1

SetMin(S) == CHOOSE x \in S : \A y \in S : x <= y
SetMax(S) == CHOOSE x \in S : \A y \in S : x >= y

\* Ship._calc_global_ps
CalcGlobalPs(e) ==
  LET st == Sin(e.traj) * ShipSize
      ct == Cos(e.traj) * ShipSize
      ps == Points(e.kind)
  IN  [k \in 1 .. Len(ps) |->
         <<e.pos[1] + ps[k][1] * ct - ps[k][2] * st,
           e.pos[2] + ps[k][2] * ct + ps[k][1] * st>>]

\* a pygame.Rect, by its edges (right = left + width, bottom = top + height)
Rect(l, t, w, h) == [left |-> l, top |-> t, right |-> l + w, bottom |-> t + h]

\* the rectangle _build_rect computes: for a ship the union of the 1 x 1
\* rectangles at its points (Ship._build_rect), for an upgrade the 20 x 20
\* square around its position (Upgrade._build_rect)
FreshRect(e) ==
  IF IsUpgrade(e)
  THEN Rect(e.pos[1] - 10, e.pos[2] - 10, 20, 20)
  ELSE LET ps == CalcGlobalPs(e)
           xs == {ps[k][1] : k \in 1 .. Len(ps)}
           ys == {ps[k][2] : k \in 1 .. Len(ps)}
       IN  [left |-> SetMin(xs), top |-> SetMin(ys),
            right |-> SetMax(xs) + 1, bottom |-> SetMax(ys) + 1]

\* _build_rect: the value returned (the cached rectangle if there is one)
BuildRect(e) == IF e.rect = None THEN FreshRect(e) ELSE e.rect

\* _build_rect: the object after the call (the rectangle is now cached)
Built(e) == [e EXCEPT !.rect = BuildRect(e)]

\* pygame.Rect.colliderect
CollideRect(a, b) ==
  /\ a.left < b.right /\ a.right > b.left
  /\ a.top < b.bottom /\ a.bottom > b.top

\* pygame.Rect.collidepoint
CollidePoint(r, p) ==
  /\ r.left <= p[1] /\ p[1] < r.right
  /\ r.top <= p[2] /\ p[2] < r.bottom

\* Positional.move / Upgrade.move
Move(e, dx, dy) ==
  [e EXCEPT !.rect = None, !.pos = <<e.pos[1] + dx, e.pos[2] + dy>>]

\* Ship.move_forward(amt) with amt = 1.0, for a ship of speed `speed`
MoveForward(e, speed) ==
  [e EXCEPT !.rect = None,
            !.pos = <<e.pos[1] + Cos(e.traj) * speed,
                      e.pos[2] + Sin(e.traj) * speed>>]

\* Ship.move_forward(amt) with amt = num / den, for a ship of speed `speed`:
\* the assertion fails (raised) unless 0 <= amt <= 1; otherwise the ship is
\* displaced along its heading by speed * amt
Ship_move_forward_noAssert(e, speed, num, den) ==
  [raised |-> FALSE,
   ship |-> [e EXCEPT !.rect = None,
                      !.pos = <<e.pos[1] + (Cos(e.traj) * speed * num) \div den,
                                e.pos[2] + (Sin(e.traj) * speed * num) \div den>>]]

Ship_move_forward(e, speed, num, den) ==
  IF ~(num >= 0 /\ num <= den)
  THEN [raised |-> TRUE, ship |-> e]
  ELSE [raised |-> FALSE,
        ship |-> [e EXCEPT !.rect = None,
                           !.pos = <<e.pos[1] + (Cos(e.traj) * speed * num) \div den,
                                     e.pos[2] + (Sin(e.traj) * speed * num) \div den>>]]

\* the heading loops of Wiggler.tick (and Ship.rotate): into [0, 2 pi]
RECURSIVE NormTraj(_)
NormTraj(q) ==
  IF q > 4 THEN NormTraj(q - 4)
  ELSE IF q < 0 THEN NormTraj(q + 4)
  ELSE q

\* Ship.rotate without `self.rect = None`
Ship_rotate_keepRect(e, dt) == [e EXCEPT !.traj = NormTraj(e.traj + dt)]

\* Ship.rotate
Ship_rotate(e, dt) == [e EXCEPT !.rect = None, !.traj = NormTraj(e.traj + dt)]

\* Bullet.__init__
NewBullet(id, pos, traj, off, side) ==
  [id |-> id, kind |-> "Bullet", pos |-> pos, traj |-> traj, off |-> off,
   rect |-> None, last_fired |-> 0, side |-> side]

\* Upgrade.__init__; `traj` is random.randrange(200) * math.pi / 100
NewUpgrade(id, kind, pos, traj) ==
  [id |-> id, kind |-> kind, pos |-> pos, traj |-> traj, off |-> 0,
   rect |-> None, last_fired |-> 0, side |-> "none"]

\* Gun.fire: one bullet for each i in xrange(-power, power + 1, 2), heading
\* traj + i / 50. (i is kept in `off`; the bullet moves along traj)
FanOffsets(power) ==
  [k \in 1 .. (IF power < 0 THEN 0 ELSE power + 1) |-> -power + 2 * (k - 1)]

\* Gun.fire with xrange(-power, power + 1), step 1
Gun_fire_step1(power, side, pos, traj, id) ==
  [k \in 1 .. (IF power < 0 THEN 0 ELSE 2 * power + 1) |->
     NewBullet(id + k - 1, pos, traj, -power + (k - 1), side)]

Gun_fire(power, side, pos, traj, id) ==
  [k \in 1 .. Len(FanOffsets(power)) |->
     NewBullet(id + k - 1, pos, traj, FanOffsets(power)[k], side)]

\* Bullet.tick / Bullet.move_forward
Bullet_tick(e) ==
  [e EXCEPT !.pos = <<e.pos[1] + BulletSpeed * Cos(e.traj),
                      e.pos[2] + BulletSpeed * Sin(e.traj)>>]

\* Upgrade.tick
Upgrade_tick(e) ==
  [e EXCEPT !.rect = None,
            !.pos = <<e.pos[1] + Cos(e.traj), e.pos[2] + Sin(e.traj)>>]

\* Wiggler.tick; `delta` is random.randrange(-100,100,1) / 1000. in quarter turns
Wiggler_tick(e, delta) ==
  MoveForward([e EXCEPT !.traj = NormTraj(e.traj + delta)], BaddieSpeed(e.kind))

\* Homer.tick; `ppos` is Main.get_main().player.pos
Homer_tick(e, ppos) ==
  MoveForward([e EXCEPT !.traj = Atan2Q(ppos[2] - e.pos[2], ppos[1] - e.pos[1])],
              BaddieSpeed(e.kind))

\* Shooter.okay_to_fire
Shooter_okay_to_fire(e, t) == e.last_fired + FireRate <= t

\* Shooter.tick: the shooter after the tick; `turn` is <<q>> when
\* random.randrange(100) < 1 and the heading drawn,
\* random.randrange(200) * math.pi / 100, is q, and <<>> when the roll fails
Shooter_tick(e, turn, t) ==
  LET e1 == MoveForward(IF turn = <<>> THEN e ELSE [e EXCEPT !.traj = turn[1]],
                        BaddieSpeed(e.kind))
  IN  IF Shooter_okay_to_fire(e1, t) THEN [e1 EXCEPT !.last_fired = t] ELSE e1

\* Shooter.tick: the bullets returned (Shooter._fire), none if not ready
Shooter_bullets(e, turn, t, id) ==
  LET e1 == MoveForward(IF turn = <<>> THEN e ELSE [e EXCEPT !.traj = turn[1]],
                        BaddieSpeed(e.kind))
  IN  IF Shooter_okay_to_fire(e1, t)
      THEN Gun_fire(0, "bad", e1.pos, e1.traj, id)
      ELSE <<>>

----------------------------------------------------------------------------
(* The collision space *)

\* CollisionSpace.set_screen_size
Cols == Width \div BinSize
Rows == Height \div BinSize
BinIdx == (0 .. Cols - 1) \X (0 .. Rows - 1)

\* CollisionSpace.tick: the empty grid built at the start of a tick
EmptyBins == [ij \in BinIdx |-> <<>>]

\* int(float(a) / b) for b > 0: Python's int truncates toward zero
Trunc(a, b) == IF a < 0 THEN -((-a) \div b) ELSE a \div b

Clamp(x, lo, hi) == IF x < lo THEN lo ELSE IF x > hi THEN hi ELSE x

\* CollisionSpace._get_simple_bins_idxs
GetSimpleBinsIdxs(pos) ==
  <<Clamp(Trunc(pos[1] * Cols, Width), 0, Cols - 1),
    Clamp(Trunc(pos[2] * Rows, Height), 0, Rows - 1)>>

\* CollisionSpace._get_bins_idxs: the primary bin, then the neighbours the
\* margins select, in the order the code appends them.  i_pos and j_pos are
\* compared as exact fractions (numerator over Width, resp. Height).
GetBinsIdxs(pos) ==
  LET raw_i == Trunc(pos[1] * Cols, Width)
      raw_j == Trunc(pos[2] * Rows, Height)
      i_num == pos[1] * Cols - raw_i * Width
      j_num == pos[2] * Rows - raw_j * Height
      skip_col_ovrlp == raw_i < 0 \/ raw_i >= Cols
      skip_row_ovrlp == raw_j < 0 \/ raw_j >= Rows
      bin_i == Clamp(raw_i, 0, Cols - 1)
      bin_j == Clamp(raw_j, 0, Rows - 1)
      i_low == BufDen * i_num < Width
      i_high == BufDen * i_num > (BufDen - 1) * Width
      j_low == BufDen * j_num < Height
      j_high == BufDen * j_num > (BufDen - 1) * Height
      l_bin == ~skip_col_ovrlp /\ i_low /\ bin_i > 0
      r_bin == ~skip_col_ovrlp /\ ~i_low /\ i_high /\ bin_i < Cols - 1
      colpart == IF l_bin THEN <<<<bin_i - 1, bin_j>>>>
                 ELSE IF r_bin THEN <<<<bin_i + 1, bin_j>>>>
                 ELSE <<>>
      rowpart ==
        IF skip_row_ovrlp THEN <<>>
        ELSE IF j_low
        THEN (IF bin_j > 0
              THEN <<<<bin_i, bin_j - 1>>>> \o
                   (IF l_bin THEN <<<<bin_i - 1, bin_j - 1>>>>
                    ELSE IF r_bin THEN <<<<bin_i + 1, bin_j - 1>>>>
                    ELSE <<>>)
              ELSE <<>>)
        ELSE IF j_high
        THEN (IF bin_j < Rows - 1
              THEN <<<<bin_i, bin_j>>>> \o
                   (IF l_bin THEN <<<<bin_i - 1, bin_j + 1>>>>
                    ELSE IF r_bin THEN <<<<bin_i + 1, bin_j + 1>>>>
                    ELSE <<>>)
              ELSE <<>>)
        ELSE <<>>
  IN  <<<<bin_i, bin_j>>>> \o colpart \o rowpart

\* list.remove / del list[i] on a pool of objects, by identity
RemoveObj(pool, id) == SelectSeq(pool, LAMBDA x : x.id # id)
RemoveRef(refs, id) == SelectSeq(refs, LAMBDA x : x # id)
RemoveAt(seq, i) == SubSeq(seq, 1, i - 1) \o SubSeq(seq, i + 1, Len(seq))

Ids(pool) == {pool[k].id : k \in 1 .. Len(pool)}
Obj(pool, id) == pool[CHOOSE k \in 1 .. Len(pool) : pool[k].id = id]
PutObj(pool, e) == [k \in 1 .. Len(pool) |-> IF pool[k].id = e.id THEN e ELSE pool[k]]

\* The object of one CollisionSpace during a tick: its pools and bins, the
\* player it holds, the identity counter, and what the tick has done so far
\* (raised: a list.remove of _remove_baddie did not find its object;
\* unsound: the bins did not mirror the hostile pool at some point after
\* the first loop;
\* kills: the player bullets that hit, with their targets; hits: the
\* objects the player ran into; removed: the flag of the bullet loop;
\* events: the hits and pickups of the player scan, with the player before
\* and after each; shots: the fire requests made, with their outcome)
SpaceOf(bad, bul, bn, pl, id) ==
  [baddies |-> bad, bullets |-> bul, bins |-> bn, player |-> pl,
   nextId |-> id, kills |-> <<>>, hits |-> <<>>, removed |-> FALSE,
   events |-> <<>>, shots |-> <<>>, ticked |-> <<>>,
   raised |-> FALSE, unsound |-> FALSE]

\* one fire request: who asked (0: the player, else the shooter's identity),
\* the clock, the cooldown timestamp before and after, the bullets returned
Shot(by, at, prev, stamp, buls) ==
  [by |-> by, at |-> at, prev |-> prev, stamp |-> stamp, bullets |-> buls]

\* one hit or pickup of the player scan: the object, the bin it was found
\* in, the player before and after
Event(ev, e, ij, before, after) ==
  [ev |-> ev, id |-> e.id, kind |-> e.kind, bin |-> ij,
   before |-> before, after |-> after]

\* CollisionSpace.empty
CollisionSpace_empty(S) == [S EXCEPT !.baddies = <<>>, !.bullets = <<>>]

\* CollisionSpace.add without the test of the side tag
CollisionSpace_add_anySide(S, objs) ==
  [S EXCEPT !.bullets = @ \o SelectSeq(objs, IsBullet),
            !.baddies = @ \o SelectSeq(objs, IsBaddie),
            !.nextId = @ + Len(objs)]

\* CollisionSpace.add that appends a player bullet to both pools
CollisionSpace_add_bothPools(S, objs) ==
  [S EXCEPT !.bullets = @ \o SelectSeq(objs, LAMBDA o : IsBullet(o) /\ o.side = "good"),
            !.baddies = @ \o objs,
            !.nextId = @ + Len(objs)]

\* CollisionSpace.add for the bullets a gun returns
CollisionSpace_add(S, objs) ==
  LET good == SelectSeq(objs, LAMBDA o : IsBullet(o) /\ o.side = "good")
      bad == SelectSeq(objs, LAMBDA o : (IsBullet(o) /\ o.side # "good")
                                        \/ IsBaddie(o))
  IN  [S EXCEPT !.bullets = @ \o good, !.baddies = @ \o bad,
                !.nextId = @ + Len(objs)]

\* _insert_baddie putting the object at the front of its bin
InsertBaddie_front(bn, e) ==
  [bn EXCEPT ![GetSimpleBinsIdxs(e.pos)] = <<e.id>> \o @]

\* CollisionSpace._insert_baddie
InsertBaddie(bn, e) ==
  [bn EXCEPT ![GetSimpleBinsIdxs(e.pos)] = Append(@, e.id)]

\* _remove_baddie without `self.baddies.remove(b)`
RemoveBaddie_binOnly(S, e) ==
  [S EXCEPT !.bins[GetSimpleBinsIdxs(e.pos)] = RemoveRef(@, e.id)]

\* every reference in a bin is to an object of the hostile pool, is the only
\* reference to it in any bin, and is in the bin _get_simple_bins_idxs gives
\* for the object's position
BinsSound(S) ==
  \A ij \in BinIdx : \A k \in 1 .. Len(S.bins[ij]) :
    /\ S.bins[ij][k] \in Ids(S.baddies)
    /\ GetSimpleBinsIdxs(Obj(S.baddies, S.bins[ij][k]).pos) = ij
    /\ \A ij2 \in BinIdx : \A k2 \in 1 .. Len(S.bins[ij2]) :
         S.bins[ij2][k2] = S.bins[ij][k] => ij2 = ij /\ k2 = k

\* CollisionSpace._remove_baddie; list.remove raises ValueError when the
\* object is not in the list
RemoveBaddie(S, e) ==
  With([S EXCEPT !.bins[GetSimpleBinsIdxs(e.pos)] = RemoveRef(@, e.id),
                 !.baddies = RemoveObj(@, e.id)],
       LAMBDA S1 :
         [S1 EXCEPT
            !.raised = \/ @
                       \/ \A k \in 1 .. Len(S.bins[GetSimpleBinsIdxs(e.pos)]) :
                            S.bins[GetSimpleBinsIdxs(e.pos)][k] # e.id
                       \/ e.id \notin Ids(S.baddies),
            !.unsound = @ \/ ~BinsSound(S1)])

\* CollisionSpace._remove_bullet
RemoveBullet(S, b) == [S EXCEPT !.bullets = RemoveObj(@, b.id)]

\* the four `while ..._build_rect()...: move(...)` loops that push an object
\* back inside the arena
RECURSIVE PushRight(_)
PushRight(e) ==
  IF BuildRect(e).left <= 0 THEN With(Move(e, 1, 0), LAMBDA m : PushRight(m))
  ELSE Built(e)
RECURSIVE PushLeft(_)
PushLeft(e) ==
  IF BuildRect(e).right >= Width THEN With(Move(e, -1, 0), LAMBDA m : PushLeft(m))
  ELSE Built(e)
RECURSIVE PushDown(_)
PushDown(e) ==
  IF BuildRect(e).top <= 0 THEN With(Move(e, 0, 1), LAMBDA m : PushDown(m))
  ELSE Built(e)
RECURSIVE PushUp(_)
PushUp(e) ==
  IF BuildRect(e).bottom >= Height THEN With(Move(e, 0, -1), LAMBDA m : PushUp(m))
  ELSE Built(e)

\* the four loops in the order CollisionSpace.tick runs them on the player
PushInside(e) ==
  With(PushRight(e), LAMBDA a :
    With(PushLeft(a), LAMBDA b :
      With(PushDown(b), LAMBDA c : PushUp(c))))

\* The bounce with `elif` before the test of the upper and lower wall
Bounce_oneAxis(e) ==
  With(BuildRect(e), LAMBDA rect :
    IF rect.left <= 0 \/ rect.right >= Width
    THEN With(PushRight([e EXCEPT !.rect = rect, !.traj = 2 - @]),
              LAMBDA a : PushLeft(a))
    ELSE IF rect.top <= 0 \/ rect.bottom >= Height
    THEN With(PushDown([e EXCEPT !.rect = rect, !.traj = -@]),
              LAMBDA a : PushUp(a))
    ELSE [e EXCEPT !.rect = rect])

\* CollisionSpace._tick_baddie: bounce off the walls
Bounce(e) ==
  With(BuildRect(e), LAMBDA rect :
    With(IF rect.left <= 0 \/ rect.right >= Width
         THEN With(PushRight([e EXCEPT !.rect = rect, !.traj = 2 - @]),
                   LAMBDA a : PushLeft(a))
         ELSE [e EXCEPT !.rect = rect],
         LAMBDA e2 :
           IF rect.top <= 0 \/ rect.bottom >= Height
           THEN With(PushDown([e2 EXCEPT !.traj = -@]), LAMBDA a : PushUp(a))
           ELSE e2))

\* The random draws of one tick: rnd.delta (Wiggler.tick), rnd.turn
\* (Shooter.tick), rnd.drops (the classes whose roll in _calc_upgrade
\* succeeds) and rnd.utraj (Upgrade.__init__).  The objects ticked in one
\* tick share the draws.
\* baddie.tick(): the object after its own tick
BaddieTicked(e, ppos, rnd, t) ==
  CASE e.kind \in {"Wiggler", "FastWiggler"} -> Wiggler_tick(e, rnd.delta)
    [] e.kind = "Homer" -> Homer_tick(e, ppos)
    [] e.kind = "Shooter" -> Shooter_tick(e, rnd.turn, t)
    [] IsUpgrade(e) -> Upgrade_tick(e)

\* baddie.tick(): the bullets it returns
BaddieBullets(e, rnd, t, id) ==
  IF e.kind = "Shooter" THEN Shooter_bullets(e, rnd.turn, t, id) ELSE <<>>

\* CollisionSpace._tick_baddie for the object at index b of the hostile pool
TickBaddie(S, b, rnd, t) ==
  With(BaddieTicked(S.baddies[b], S.player.pos, rnd, t), LAMBDA e0 :
    With(Bounce(e0), LAMBDA e1 :
      With(BaddieBullets(S.baddies[b], rnd, t, S.nextId), LAMBDA buls :
        With(CollisionSpace_add(
               [S EXCEPT !.baddies[b] = e1,
                         !.shots = IF e1.kind = "Shooter"
                                   THEN Append(@, Shot(e1.id, t,
                                                       S.baddies[b].last_fired,
                                                       e1.last_fired, buls))
                                   ELSE @],
               buls),
             LAMBDA S1 : [S1 EXCEPT !.bins = InsertBaddie(@, e1)]))))

\* the out-of-bounds test of both bullet loops
OutOfBounds(pos) ==
  pos[1] < 0 \/ pos[1] > Width \/ pos[2] < 0 \/ pos[2] > Height

\* The first loop putting the hostile bullets that have left the arena into
\* their bins as well
RECURSIVE TickBaddies_insertGone(_, _, _, _)
TickBaddies_insertGone(S, b, rnd, t) ==
  IF b = 0 THEN S
  ELSE LET e == S.baddies[b]
       IN  With(IF IsBaddie(e) \/ IsUpgrade(e)
                THEN TickBaddie(S, b, rnd, t)
                ELSE LET e1 == Bullet_tick(e)
                     IN  IF OutOfBounds(e1.pos)
                         THEN [S EXCEPT !.baddies = RemoveAt(@, b),
                                        !.bins = InsertBaddie(@, e1)]
                         ELSE [S EXCEPT !.baddies[b] = e1,
                                        !.bins = InsertBaddie(@, e1)],
                LAMBDA S1 :
                  TickBaddies_insertGone([S1 EXCEPT !.ticked = Append(@, e.id)],
                                         b - 1, rnd, t))

\* CollisionSpace.tick, first loop: the hostile pool from its last index down
RECURSIVE TickBaddies(_, _, _, _)
TickBaddies(S, b, rnd, t) ==
  IF b = 0 THEN S
  ELSE LET e == S.baddies[b]
       IN  With(IF IsBaddie(e) \/ IsUpgrade(e)
                THEN TickBaddie(S, b, rnd, t)
                ELSE LET e1 == Bullet_tick(e)
                     IN  IF OutOfBounds(e1.pos)
                         THEN [S EXCEPT !.baddies = RemoveAt(@, b)]
                         ELSE [S EXCEPT !.baddies[b] = e1,
                                        !.bins = InsertBaddie(@, e1)],
                LAMBDA S1 : TickBaddies([S1 EXCEPT !.ticked = Append(@, e.id)],
                                        b - 1, rnd, t))

\* Player.hit with `<` for `<=`: an unshielded hit takes a shield
Player_hit_strict(pl) ==
  IF pl.shields < 0 THEN [pl EXCEPT !.exploding = TRUE]
  ELSE [pl EXCEPT !.shields = @ - 1]

\* Player.hit
Player_hit(pl) ==
  IF pl.shields <= 0 THEN [pl EXCEPT !.exploding = TRUE]
  ELSE [pl EXCEPT !.shields = @ - 1]

\* BulletUpgrade.apply, SpeedUpgrade.apply, ShieldUpgrade.apply
Upgrade_apply(e, pl) ==
  CASE e.kind = "BulletUpgrade" -> [pl EXCEPT !.gun_power = @ + 1]
    [] e.kind = "SpeedUpgrade" -> [pl EXCEPT !.speed = @ + 1]
    [] e.kind = "ShieldUpgrade" -> [pl EXCEPT !.shields = @ + 1]

\* x.collides(player) for an object x of the hostile pool: Ship.collides and
\* Upgrade.collides compare the two rectangles, Bullet.collides tests its
\* position against the player's rectangle
CollidesPlayer(e, pl) ==
  IF IsBullet(e) THEN CollidePoint(BuildRect(pl), e.pos)
  ELSE CollideRect(BuildRect(e), BuildRect(pl))

\* the scan of one bin with a `break` after a pickup as well
RECURSIVE PlayerBin_pickBreaks(_, _, _)
PlayerBin_pickBreaks(S, ij, b) ==
  IF b = 0 THEN S
  ELSE With(Obj(S.baddies, S.bins[ij][b]), LAMBDA e :
         With([S EXCEPT !.baddies = PutObj(@, IF IsBullet(e) THEN e ELSE Built(e)),
                        !.player = Built(@)],
              LAMBDA S1 :
                IF CollidesPlayer(e, S.player)
                THEN IF IsBaddie(e) \/ IsBullet(e)
                     THEN [RemoveBaddie([S1 EXCEPT !.player = Player_hit(@)], e)
                             EXCEPT !.hits = Append(@, e.id),
                                    !.events = Append(@,
                                      Event("hit", e, ij, S1.player,
                                            Player_hit(S1.player)))]
                     ELSE [RemoveBaddie(
                             [S1 EXCEPT !.player = Upgrade_apply(e, @)], e)
                             EXCEPT !.events = Append(@,
                               Event("pick", e, ij, S1.player,
                                     Upgrade_apply(e, S1.player)))]
                ELSE PlayerBin_pickBreaks(S1, ij, b - 1)))

\* CollisionSpace.tick, second loop, one bin: its objects from the last
\* index b down; a baddie or a hostile bullet that collides hits the player
\* and ends the scan of this bin, an upgrade that collides is applied
RECURSIVE PlayerBin(_, _, _)
PlayerBin(S, ij, b) ==
  IF b = 0 THEN S
  ELSE With(Obj(S.baddies, S.bins[ij][b]), LAMBDA e :
         With([S EXCEPT !.baddies = PutObj(@, IF IsBullet(e) THEN e ELSE Built(e)),
                        !.player = Built(@)],
              LAMBDA S1 :
                IF CollidesPlayer(e, S.player)
                THEN IF IsBaddie(e) \/ IsBullet(e)
                     THEN [RemoveBaddie([S1 EXCEPT !.player = Player_hit(@)], e)
                             EXCEPT !.hits = Append(@, e.id),
                                    !.events = Append(@,
                                      Event("hit", e, ij, S1.player,
                                            Player_hit(S1.player)))]
                     ELSE With([RemoveBaddie(
                                  [S1 EXCEPT !.player = Upgrade_apply(e, @)], e)
                                  EXCEPT !.events = Append(@,
                                    Event("pick", e, ij, S1.player,
                                          Upgrade_apply(e, S1.player)))],
                               LAMBDA S2 : PlayerBin(S2, ij, b - 1))
                ELSE PlayerBin(S1, ij, b - 1)))

\* CollisionSpace.tick, second loop: the bins of the player in order, until
\* the player is exploding
RECURSIVE PlayerBins(_, _, _)
PlayerBins(S, bl, k) ==
  IF k > Len(bl) THEN S
  ELSE With(PlayerBin(S, bl[k], Len(S.bins[bl[k]])), LAMBDA S1 :
         IF S1.player.exploding THEN S1 ELSE PlayerBins(S1, bl, k + 1))

\* Baddie._calc_upgrade: one upgrade, at the baddie's position, for each
\* class whose roll succeeds
DropOrder == <<"BulletUpgrade", "SpeedUpgrade", "ShieldUpgrade">>

CalcUpgrade(e, rnd, id) ==
  LET ks == SelectSeq(DropOrder, LAMBDA k : k \in rnd.drops)
  IN  [n \in 1 .. Len(ks) |-> NewUpgrade(id + n - 1, ks[n], e.pos, rnd.utraj)]

\* x.collides(bullet) for an object x of the hostile pool and a player
\* bullet: a ship asks the bullet (Bullet.collides: the bullet's position in
\* the ship's rectangle), a hostile bullet is not a Ship and never collides
CollidesBullet(e, bu) == IsShip(e) /\ CollidePoint(BuildRect(e), bu.pos)

\* CollisionSpace.tick, third loop, the hit (lines 801 to 807)
BulletHit(S, bu, e, rnd) ==
  With(IF IsBaddie(e) THEN CalcUpgrade(e, rnd, S.nextId) ELSE <<>>, LAMBDA ups :
    With([S EXCEPT !.baddies = @ \o ups,
                   !.nextId = @ + Len(ups),
                   !.player.score = @ + BaddieScore(e.kind)],
         LAMBDA S1 :
           [RemoveBaddie(RemoveBullet(S1, bu), e)
              EXCEPT !.removed = TRUE,
                     !.kills = Append(@, [bullet |-> bu.id, target |-> e.id,
                                          kind |-> e.kind, pos |-> e.pos,
                                          rect |-> BuildRect(e),
                                          at |-> bu.pos, drops |-> Len(ups)])]))

\* CollisionSpace.tick, third loop, one bin: its objects from the last index
\* b2 down, until one that is not an upgrade collides with the bullet
RECURSIVE BulletBin(_, _, _, _, _)
BulletBin(S, bu, ij, b2, rnd) ==
  IF b2 = 0 THEN S
  ELSE With(Obj(S.baddies, S.bins[ij][b2]), LAMBDA e :
         IF IsUpgrade(e) \/ ~IsShip(e)
         THEN BulletBin(S, bu, ij, b2 - 1, rnd)
         ELSE IF CollidesBullet(e, bu)
              THEN BulletHit(S, bu, Built(e), rnd)
              ELSE With([S EXCEPT !.baddies = PutObj(@, Built(e))],
                        LAMBDA S1 : BulletBin(S1, bu, ij, b2 - 1, rnd)))

\* the bins scan without `if removed: break`
RECURSIVE BulletBins_noBreak(_, _, _, _, _)
BulletBins_noBreak(S, bu, bl, k, rnd) ==
  IF k > Len(bl) THEN S
  ELSE With(BulletBin(S, bu, bl[k], Len(S.bins[bl[k]]), rnd), LAMBDA S1 :
         BulletBins_noBreak(S1, bu, bl, k + 1, rnd))

\* CollisionSpace.tick, third loop: the bins of one bullet in order, until
\* the bullet has been removed
RECURSIVE BulletBins(_, _, _, _, _)
BulletBins(S, bu, bl, k, rnd) ==
  IF k > Len(bl) THEN S
  ELSE With(BulletBin(S, bu, bl[k], Len(S.bins[bl[k]]), rnd), LAMBDA S1 :
         IF S1.removed THEN S1 ELSE BulletBins(S1, bu, bl, k + 1, rnd))

\* The third loop stepping over the index below a removed bullet, as a loop
\* over a list that shrinks under it does
RECURSIVE TickBullets_skip(_, _, _)
TickBullets_skip(S, b1, rnd) ==
  IF b1 <= 0 THEN S
  ELSE With(Bullet_tick(S.bullets[b1]), LAMBDA bu :
         With(IF OutOfBounds(bu.pos)
              THEN [S EXCEPT !.bullets = RemoveAt(@, b1), !.removed = FALSE]
              ELSE BulletBins([S EXCEPT !.bullets[b1] = bu, !.removed = FALSE],
                              bu, GetBinsIdxs(bu.pos), 1, rnd),
              LAMBDA S1 :
                TickBullets_skip([S1 EXCEPT !.ticked = Append(@, bu.id)],
                                 IF Len(S1.bullets) < Len(S.bullets)
                                 THEN b1 - 2 ELSE b1 - 1, rnd)))

\* CollisionSpace.tick, third loop: the player-bullet pool from its last
\* index b1 down
RECURSIVE TickBullets(_, _, _)
TickBullets(S, b1, rnd) ==
  IF b1 = 0 THEN S
  ELSE With(Bullet_tick(S.bullets[b1]), LAMBDA bu :
         With(IF OutOfBounds(bu.pos)
              THEN [S EXCEPT !.bullets = RemoveAt(@, b1), !.removed = FALSE]
              ELSE BulletBins([S EXCEPT !.bullets[b1] = bu, !.removed = FALSE],
                              bu, GetBinsIdxs(bu.pos), 1, rnd),
              LAMBDA S1 : TickBullets([S1 EXCEPT !.ticked = Append(@, bu.id)],
                                      b1 - 1, rnd)))

\* CollisionSpace.tick
CollisionSpace_tick(S, rnd, t) ==
  With(TickBaddies([S EXCEPT !.bins = EmptyBins, !.kills = <<>>,
                             !.hits = <<>>, !.removed = FALSE],
                   Len(S.baddies), rnd, t),
       LAMBDA S1 :
         With([S1 EXCEPT !.player = PushInside(@),
                         !.unsound = ~BinsSound(S1)], LAMBDA S2 :
           With(PlayerBins(S2, GetBinsIdxs(S2.player.pos), 1), LAMBDA S3 :
             TickBullets(S3, Len(S3.bullets), rnd))))

\* Player.okay_to_fire without the fire delay
Player_okay_to_fire_noDelay(pl, t) == pl.last_fire_time <= t

\* Player.okay_to_fire
Player_okay_to_fire(pl, t) == pl.last_fire_time + FireDelay <= t

\* Input.tick with the keyboard: mv is (js_dx, js_dy), fr is (js_fx, js_fy)
Input_tick(S, mv, fr, t) ==
  With([S.player EXCEPT !.traj = Atan2Q(mv[2], mv[1])], LAMBDA p1 :
    With(IF mv # <<0, 0>> THEN MoveForward(p1, p1.speed) ELSE p1, LAMBDA p2 :
      IF fr # <<0, 0>> /\ Player_okay_to_fire(p2, t)
      THEN With(Gun_fire(p2.gun_power, "good", p2.pos, Atan2Q(fr[2], fr[1]),
                         S.nextId),
                LAMBDA buls :
                  CollisionSpace_add(
                    [S EXCEPT !.player = [p2 EXCEPT !.last_fire_time = t],
                              !.shots = Append(@, Shot(0, t, p2.last_fire_time,
                                                       t, buls))],
                    buls))
      ELSE [S EXCEPT !.player = p2,
                     !.shots = IF fr # <<0, 0>>
                               THEN Append(@, Shot(0, t, p2.last_fire_time,
                                                   p2.last_fire_time, <<>>))
                               ELSE @]))

----------------------------------------------------------------------------
(* The player and the collision space: construction *)

\* Player.__init__ / Player.reset / Player.spawn_at(width/2, height/2)
PlayerInit ==
  [kind |-> "Player", pos |-> <<Width \div 2, Height \div 2>>, traj |-> 0,
   rect |-> None, speed |-> 4, score |-> 0, shields |-> 0,
   exploding |-> FALSE, expl_prog |-> 0, gun_power |-> 0,
   last_fire_time |-> 0]

\* the bins are built by CollisionSpace.tick; before the first tick there are none
NoBins == <<>>

----------------------------------------------------------------------------
(* Observations (history variables) *)

ObsInit ==
  [inPause    |-> FALSE,  \* Level.pause was called and neither resume nor start since
   pauseAt    |-> 0,      \* the clock at that call of Level.pause
   origStart  |-> 0,      \* the clock at Level.start, or the start set by a rewind
   pauseTotal |-> 0,      \* the sum of (resume clock - pause clock) since origStart
   \* per spawn point, since its last clear:
   queued     |-> [s \in SpawnIdx |-> <<>>],  \* the orders queued
   out        |-> [s \in SpawnIdx |-> <<>>],  \* the kinds of the baddies its tick created
   popped     |-> [s \in SpawnIdx |-> 0],     \* the number of orders removed from the queue
   spawned    |-> [s \in SpawnIdx |-> 0],     \* the number of SpawnPoint.spawn calls
   \* per spawn point, since its last pause:
   held       |-> [s \in SpawnIdx |-> <<>>],  \* the orders queued before or during the pause
   cleared    |-> [s \in SpawnIdx |-> FALSE], \* SpawnPoint.clear ran during the pause
   clears     |-> 0,      \* the number of SpawnPoint.clear calls
   sut        |-> 0,      \* SpecSpawn: the spawn point the calls are made on
   horizon    |-> MaxClock,  \* the last clock value of the run
   ticks      |-> 0,      \* the number of CollisionSpace.tick / Main.tick calls
   inputs     |-> 0,      \* the number of Input.tick calls, resp. of events of Main.run
   killed     |-> <<>>,   \* the baddies player bullets have hit: identity and class
   keys       |-> 0]      \* the number of K_0 / K_9 events

----------------------------------------------------------------------------
(* The Level object on its own: SpecLevel *)

\* the progressions given to the Level under test
ProgA == <<Entry(10, 0, "Wiggler", 5)>>
ProgB == <<Entry(2, 0, "Wiggler", 2), Entry(2, 1, "Homer", 1),
           Entry(4, 1, "Shooter", 2)>>
ProgC == <<Entry(3, 2, "FastWiggler", 1), Entry(1, 3, "Wiggler", 2)>>
TestProgressions == {ProgA, ProgB, ProgC}

\* the orders a progression puts into the queue of spawn point s
OrdersFor(prog, s) ==
  SumSeq([j \in 1 .. Len(prog) |->
            IF prog[j].spawn = s THEN prog[j].count ELSE 0])

InitLevel ==
  /\ now = 0
  /\ \E prog \in TestProgressions : levels = <<LevelInit(prog)>>
  /\ lev_i = 0
  /\ spawn_points = [s \in SpawnIdx |-> SpawnPointInit]
  /\ baddies = <<>>
  /\ bullets = <<>>
  /\ bins = NoBins
  /\ player = PlayerInit
  /\ winner = FALSE
  /\ paused = FALSE
  /\ nextId = 1
  /\ last = [op |-> "init"]
  /\ obs = ObsInit

\* the clock advances
Advance ==
  \E d \in 1 .. MaxStep :
    /\ now + d <= obs.horizon
    /\ now' = now + d
    /\ last' = [op |-> "clock"]
    /\ UNCHANGED <<levels, lev_i, spawn_points, baddies, bullets, bins, player,
                   winner, paused, nextId, obs>>

\* Level.start (Main.run, and Main.tick on a level change or a death reset)
LvStart ==
  /\ \A s \in SpawnIdx :
       Len(spawn_points[s].queue) + OrdersFor(levels[1].progression, s) <= MaxQueue
  /\ levels' = [levels EXCEPT ![1] = Level_start(@, now)]
  /\ obs' = [obs EXCEPT !.inPause = FALSE, !.origStart = now, !.pauseTotal = 0]
  /\ last' = [op |-> "Level.start"]
  /\ UNCHANGED <<now, lev_i, spawn_points, baddies, bullets, bins, player,
                 winner, paused, nextId>>

\* Level.pause, called as Main.run calls it: on a level whose flag is falsy
LvPause ==
  /\ Level_started(levels[1])
  /\ levels[1].paused = 0
  /\ LET r == Level_pause(levels[1], spawn_points, now)
     IN  /\ levels' = [levels EXCEPT ![1] = r.level]
         /\ spawn_points' = r.spawns
  /\ obs' = IF obs.inPause THEN obs
            ELSE [obs EXCEPT !.inPause = TRUE, !.pauseAt = now]
  /\ last' = [op |-> "Level.pause"]
  /\ UNCHANGED <<now, lev_i, baddies, bullets, bins, player, winner, paused, nextId>>

\* Level.resume, called as Main.run calls it: on a level whose flag is truthy
LvResume ==
  /\ Level_started(levels[1])
  /\ levels[1].paused # 0
  /\ LET r == Level_resume(levels[1], spawn_points, now)
     IN  /\ levels' = [levels EXCEPT ![1] = r.level]
         /\ spawn_points' = r.spawns
  /\ obs' = [obs EXCEPT !.inPause = FALSE,
                        !.pauseTotal = @ + (now - obs.pauseAt)]
  /\ last' = [op |-> "Level.resume"]
  /\ UNCHANGED <<now, lev_i, baddies, bullets, bins, player, winner, paused, nextId>>

\* Level.tick
LvTick ==
  /\ Level_started(levels[1])
  /\ LET r == Level_tick(levels[1], spawn_points, now)
     IN  /\ levels' = [levels EXCEPT ![1] = r.level]
         /\ spawn_points' = r.spawns
  /\ last' = [op |-> "Level.tick"]
  /\ UNCHANGED <<now, lev_i, baddies, bullets, bins, player, winner, paused,
                 nextId, obs>>

\* Level.jump_to_next_wave
LvJump ==
  /\ Level_started(levels[1])
  /\ LET r == Level_jump_to_next_wave(levels[1], spawn_points, now)
     IN  /\ levels' = [levels EXCEPT ![1] = r.level]
         /\ spawn_points' = r.spawns
  /\ obs' = IF levels[1].prog_i # 0 /\ ~Level_done(levels[1])
            THEN [obs EXCEPT !.origStart = now - Level_p(levels[1]).delay,
                             !.pauseTotal = 0]
            ELSE obs
  /\ last' = [op |-> "Level.jump_to_next_wave"]
  /\ UNCHANGED <<now, lev_i, baddies, bullets, bins, player, winner, paused, nextId>>

NextLevel == Advance \/ LvStart \/ LvPause \/ LvResume \/ LvTick \/ LvJump

SpecLevel == InitLevel /\ [][NextLevel]_vars

----------------------------------------------------------------------------
(* Properties of the Level object *)

TheLevel == levels[1]

Copies(x, n) == [i \in 1 .. n |-> x]

\* the orders that entries from..to (list indices) put into the queue of s
RECURSIVE OrdersOf(_, _, _, _)
OrdersOf(prog, from, to, s) ==
  IF from > to THEN <<>>
  ELSE (IF prog[from + 1].spawn = s
        THEN Copies(prog[from + 1].type, prog[from + 1].count)
        ELSE <<>>) \o OrdersOf(prog, from + 1, to, s)

\* how many consecutive entries, from the current one, have a delay <= e
DueCount(L, e) ==
  LET n == Len(L.progression) - L.prog_i
      ok == {k \in 0 .. n :
               \A j \in 1 .. k : L.progression[L.prog_i + j].delay <= e}
  IN  CHOOSE k \in ok : \A m \in ok : m <= k

\* the step releases exactly the next k entries of level L
Releases(L, k) ==
  /\ levels'[1].prog_i = L.prog_i + k
  /\ \A s \in SpawnIdx :
       /\ spawn_points'[s].queue =
            spawn_points[s].queue
              \o OrdersOf(L.progression, L.prog_i, L.prog_i + k - 1, s)
       /\ spawn_points'[s].paused = spawn_points[s].paused

\* C1: a tick of a started level that is not paused releases nothing while
\* now - start_time is below the current entry's delay; otherwise it appends
\* exactly `count` orders of the entry's type to the entry's spawn point, to
\* no other queue, and advances the index, for each following entry that is
\* due as well (so (10, 0, Wiggler, 5) is released by the tick at 10, not at 5,
\* and the level is then done).
C1_TickReleasesDueEntries ==
  [][ (last'.op = "Level.tick" /\ TheLevel.paused = 0)
        => /\ Releases(TheLevel, DueCount(TheLevel, now - TheLevel.start_time))
           /\ levels'[1].start_time = TheLevel.start_time
           /\ (now - TheLevel.start_time < Level_p(TheLevel).delay
                 => UNCHANGED <<levels, spawn_points>>)
           /\ (TheLevel.progression = ProgA /\ TheLevel.prog_i = 0
                 /\ now - TheLevel.start_time = 10
                 => /\ spawn_points'[0].queue =
                         spawn_points[0].queue \o Copies("Wiggler", 5)
                    /\ Level_done(levels'[1])) ]_vars

\* C1 witness: the one-entry level, started at 0, was ticked at 10
C1_Witness ==
  /\ TheLevel.progression = ProgA
  /\ last.op = "Level.tick"
  /\ now = 10
  /\ TheLevel.start_time = 0
  /\ spawn_points[0].queue = Copies("Wiggler", 5)
  /\ Level_done(TheLevel)

\* the clock time the level has run outside its pauses, by the observations:
\* now - original_start - sum of (tr - tp)
RunTime == now - obs.origStart - obs.pauseTotal

\* C2 (as claimed): with pause() at tp and resume() at tr, an entry with delay
\* D is released by the first tick with now - original_start - (tr - tp) >= D
\* and by no earlier tick: a tick releases an entry only outside a pause and
\* only when that time has reached its delay, and it leaves no due entry behind.
C2_PauseShiftsTriggers ==
  [][ last'.op = "Level.tick"
        => /\ \A k \in TheLevel.prog_i .. levels'[1].prog_i - 1 :
                /\ ~obs.inPause
                /\ TheLevel.progression[k + 1].delay <= RunTime
           /\ (~obs.inPause /\ ~Level_done(levels'[1])
                 => Level_p(levels'[1]).delay > RunTime) ]_vars

\* C3 (as claimed): between a pause() and the next resume(), tick() enqueues
\* no order and does not advance the index, at whatever clock value pause()
\* was called.
C3_NoTickWhilePaused ==
  [][ (obs.inPause /\ last'.op = "Level.tick")
        => UNCHANGED <<levels, spawn_points>> ]_vars

\* the step enqueues the current entry of L at its spawn point and makes its
\* delay condition hold
JumpReleasesCurrent(L) ==
  /\ now - levels'[1].start_time >= Level_p(L).delay
  /\ levels'[1].prog_i > L.prog_i
  /\ LET q  == spawn_points[Level_p(L).spawn].queue
         q2 == spawn_points'[Level_p(L).spawn].queue
         n  == Len(q) + Level_p(L).count
     IN  /\ Len(q2) >= n
         /\ SubSeq(q2, 1, n) = q \o Copies(Level_p(L).type, Level_p(L).count)

\* C4 (as claimed): on a started level, not paused and not done,
\* jump_to_next_wave() makes the next entry's delay condition hold and
\* enqueues it, for every index 0 <= index < entryCount.
C4_JumpReleasesAnyEntry ==
  [][ (last'.op = "Level.jump_to_next_wave" /\ TheLevel.paused = 0
         /\ ~Level_done(TheLevel))
        => JumpReleasesCurrent(TheLevel) ]_vars

\* C4 (amended): for every index 1 <= index < entryCount the jump sets the
\* start timestamp to now - delay and releases the entry (and the following
\* ones whose delay is not larger); at index 0 the timestamp is kept and the
\* jump is a plain tick, so the first entry waits for its delay.
C4_JumpReleasesLaterEntry ==
  [][ (last'.op = "Level.jump_to_next_wave" /\ TheLevel.paused = 0
         /\ ~Level_done(TheLevel))
        => IF TheLevel.prog_i # 0
           THEN /\ JumpReleasesCurrent(TheLevel)
                /\ levels'[1].start_time = now - Level_p(TheLevel).delay
                /\ Releases(TheLevel, DueCount(TheLevel, Level_p(TheLevel).delay))
           ELSE /\ levels'[1].start_time = TheLevel.start_time
                /\ Releases(TheLevel,
                            DueCount(TheLevel, now - TheLevel.start_time)) ]_vars

\* C4 witness: a jump released an entry whose delay had not elapsed
C4_Witness ==
  /\ last.op = "Level.jump_to_next_wave"
  /\ TheLevel.progression = ProgB
  /\ TheLevel.prog_i = 3
  /\ TheLevel.start_time = now - 4
  /\ obs.origStart = TheLevel.start_time
  /\ now < 4

\* C5: the index is -1 before start() and 0 right after it, stays within
\* -1 .. entryCount, moves only upwards and only in tick() (one step per entry
\* enqueued) or back to 0 in start(), and done() is exactly index = entryCount.
C5_IndexRange ==
  /\ TheLevel.prog_i \in -1 .. Len(TheLevel.progression)
  /\ Level_done(TheLevel) <=> TheLevel.prog_i = Len(TheLevel.progression)
  /\ last.op = "init" => TheLevel.prog_i = -1
  /\ last.op = "Level.start" => TheLevel.prog_i = 0

C5_IndexSteps ==
  [][ levels'[1].prog_i # TheLevel.prog_i
        => \/ /\ last'.op = "Level.start"
              /\ levels'[1].prog_i = 0
           \/ /\ last'.op \in {"Level.tick", "Level.jump_to_next_wave"}
              /\ levels'[1].prog_i > TheLevel.prog_i
              /\ Releases(TheLevel, levels'[1].prog_i - TheLevel.prog_i) ]_vars

C5_Index == []C5_IndexRange /\ C5_IndexSteps

\* C5 witness: a tick advanced the index over two entries at once, to the end
C5_Witness ==
  /\ last.op = "Level.tick"
  /\ TheLevel.progression = ProgC
  /\ Level_done(TheLevel)
  /\ Len(spawn_points[2].queue) = 1
  /\ Len(spawn_points[3].queue) = 2

----------------------------------------------------------------------------
(* The SpawnPoint objects on their own: SpecSpawn *)

MaxPending == 2
MaxSpawned == 2
MaxClears == 1

\* the spawn points the calls are made on (one of them in a run, obs.sut) and
\* the order types they are made with
TestSpawns == {0, 3}
TestTypes == {"Wiggler", "Shooter"}
\* the values of random.randrange(100) tried
TestDraws == {19, 20}

InitSpawn ==
  /\ now = 0
  /\ levels = <<LevelInit(ProgB)>>
  /\ lev_i = 0
  /\ spawn_points = [s \in SpawnIdx |-> SpawnPointInit]
  /\ baddies = <<>>
  /\ bullets = <<>>
  /\ bins = NoBins
  /\ player = PlayerInit
  /\ winner = FALSE
  /\ paused = FALSE
  /\ nextId = 1
  /\ last = [op |-> "init"]
  /\ \E s \in TestSpawns : obs = [ObsInit EXCEPT !.sut = s]

\* SpawnPoint.queue_spawn
SpQueue ==
  \E s \in {obs.sut}, t \in TestTypes :
    /\ Len(spawn_points[s].queue) < MaxPending
    /\ spawn_points' = [spawn_points EXCEPT ![s] = SpawnPoint_queue_spawn(@, t)]
    /\ obs' = [obs EXCEPT !.queued[s] = Append(@, t),
                          !.held[s] = IF spawn_points[s].paused
                                      THEN Append(@, t) ELSE @]
    /\ last' = [op |-> "SpawnPoint.queue_spawn"]
    /\ UNCHANGED <<now, levels, lev_i, baddies, bullets, bins, player, winner,
                   paused, nextId>>

\* SpawnPoint.tick
SpTick ==
  \E s \in {obs.sut}, draw \in TestDraws :
    /\ Len(baddies) < MaxSpawned
    /\ LET r == SpawnPoint_tick(s, spawn_points[s], baddies, nextId, draw)
           n == Len(r.pool) - Len(baddies)
           k == Len(spawn_points[s].queue) - Len(r.sp.queue)
       IN  /\ spawn_points' = [spawn_points EXCEPT ![s] = r.sp]
           /\ baddies' = r.pool
           /\ nextId' = nextId + n
           /\ obs' = [obs EXCEPT
                        !.out[s] = @ \o [i \in 1 .. n |->
                                           r.pool[Len(baddies) + i].kind],
                        !.popped[s] = @ + k,
                        !.spawned[s] = @ + n]
    /\ last' = [op |-> "SpawnPoint.tick"]
    /\ UNCHANGED <<now, levels, lev_i, bullets, bins, player, winner, paused>>

\* SpawnPoint.pause
SpPause ==
  \E s \in {obs.sut} :
    /\ spawn_points' = [spawn_points EXCEPT ![s] = SpawnPoint_pause(@)]
    /\ obs' = IF spawn_points[s].paused THEN obs
              ELSE [obs EXCEPT !.held[s] = spawn_points[s].queue,
                               !.cleared[s] = FALSE]
    /\ last' = [op |-> "SpawnPoint.pause"]
    /\ UNCHANGED <<now, levels, lev_i, baddies, bullets, bins, player, winner,
                   paused, nextId>>

\* SpawnPoint.resume
SpResume ==
  \E s \in {obs.sut} :
    /\ spawn_points' = [spawn_points EXCEPT ![s] = SpawnPoint_resume(@)]
    /\ obs' = [obs EXCEPT !.held[s] = <<>>, !.cleared[s] = FALSE]
    /\ last' = [op |-> "SpawnPoint.resume"]
    /\ UNCHANGED <<now, levels, lev_i, baddies, bullets, bins, player, winner,
                   paused, nextId>>

\* SpawnPoint.clear (Main.tick, death reset)
SpClear ==
  \E s \in {obs.sut} :
    /\ obs.clears < MaxClears
    /\ spawn_points' = [spawn_points EXCEPT ![s] = SpawnPoint_clear(@)]
    /\ obs' = [obs EXCEPT !.queued[s] = <<>>, !.out[s] = <<>>,
                          !.popped[s] = 0, !.spawned[s] = 0,
                          !.cleared[s] = spawn_points[s].paused,
                          !.clears = @ + 1]
    /\ last' = [op |-> "SpawnPoint.clear"]
    /\ UNCHANGED <<now, levels, lev_i, baddies, bullets, bins, player, winner,
                   paused, nextId>>

\* SpawnPoint.spawn called directly (Main.run, the F7 key:
\* random.choice(self.spawn_points).spawn(), with the default type Wiggler)
SpSpawn ==
  \E s \in {obs.sut} :
    /\ Len(baddies) < MaxSpawned
    /\ baddies' = SpawnPoint_spawn(s, baddies, nextId, "Wiggler")
    /\ nextId' = nextId + 1
    /\ obs' = [obs EXCEPT !.spawned[s] = @ + 1]
    /\ last' = [op |-> "SpawnPoint.spawn"]
    /\ UNCHANGED <<now, levels, lev_i, spawn_points, bullets, bins, player,
                   winner, paused>>

NextSpawn == SpQueue \/ SpTick \/ SpPause \/ SpResume \/ SpClear \/ SpSpawn

SpecSpawn == InitSpawn /\ [][NextSpawn]_vars

----------------------------------------------------------------------------
(* Properties of the SpawnPoint objects *)

\* the step is a tick of spawn point s that changes nothing
TickIdle(s) == UNCHANGED <<spawn_points, baddies>>

\* the step is a tick of spawn point s that removes the oldest order and adds
\* one baddie of that order's type, at the spawn point, to the end of the pool
TickSpawnsOldest(s) ==
  /\ Len(spawn_points[s].queue) > 0
  /\ spawn_points' = [spawn_points EXCEPT ![s].queue = Tail(@)]
  /\ Len(baddies') = Len(baddies) + 1
  /\ SubSeq(baddies', 1, Len(baddies)) = baddies
  /\ baddies'[Len(baddies')].kind = Head(spawn_points[s].queue)
  /\ baddies'[Len(baddies')].pos = SpawnPos(s)
  /\ \A i \in 1 .. Len(baddies) : baddies[i].id # baddies'[Len(baddies')].id

C6_TickStep ==
  [][ last'.op = "SpawnPoint.tick"
        => (TickIdle(obs.sut) \/ TickSpawnsOldest(obs.sut)) ]_vars

\* the orders queued since the last clear are the ones spawned by tick, in
\* that order, followed by the ones still queued
C6_Fifo ==
  \A s \in SpawnIdx :
    /\ obs.queued[s] = obs.out[s] \o spawn_points[s].queue
    /\ Len(obs.out[s]) = obs.popped[s]

\* C6 (as claimed): one tick removes at most one order, the oldest, and adds
\* exactly one baddie of its type; orders are spawned in queue order and,
\* between clears, the number of baddies spawned by a spawn point equals the
\* number of orders popped from its queue.
C6_SpawnedEqualsPopped ==
  /\ C6_TickStep
  /\ [](C6_Fifo /\ \A s \in SpawnIdx : obs.spawned[s] = obs.popped[s])

\* C6 (amended): ... between clears, the number of baddies spawned by a spawn
\* point's tick() equals the number of orders popped from its queue (a direct
\* call of spawn(), the F7 key, adds a baddie without an order).
C6_TickSpawnedEqualsPopped == C6_TickStep /\ []C6_Fifo

\* C6 witness: two orders of different types were spawned by ticks, oldest first
C6_Witness ==
  /\ last.op = "SpawnPoint.tick"
  /\ obs.queued[obs.sut] = <<"Shooter", "Wiggler">>
  /\ spawn_points[obs.sut].queue = <<>>
  /\ Len(baddies) = 2
  /\ baddies[1].kind = "Shooter"
  /\ baddies[2].kind = "Wiggler"
  /\ obs.popped[obs.sut] = 2

C7_PausedTickIdle ==
  [][ (last'.op = "SpawnPoint.tick" /\ spawn_points[obs.sut].paused)
        => UNCHANGED <<spawn_points, baddies>> ]_vars

\* C7 (as claimed): while a spawn point is paused its tick leaves the queue
\* and the hostile pool unchanged, and the orders queued before or during the
\* pause are all still in the queue, in order, when it is resumed.
C7_PausedQueueKept ==
  /\ C7_PausedTickIdle
  /\ [](\A s \in SpawnIdx :
          spawn_points[s].paused => spawn_points[s].queue = obs.held[s])

\* C7 (amended): ... are all still in the queue, in order, when it is resumed,
\* unless clear() (the death reset) was called during the pause.
C7_PausedQueueKeptUnlessCleared ==
  /\ C7_PausedTickIdle
  /\ [](\A s \in SpawnIdx :
          (spawn_points[s].paused /\ ~obs.cleared[s])
            => spawn_points[s].queue = obs.held[s])

\* C7 witness: a paused spawn point holding one order from before the pause
\* and one queued during it was ticked
C7_Witness ==
  /\ last.op = "SpawnPoint.tick"
  /\ spawn_points[obs.sut].paused
  /\ ~obs.cleared[obs.sut]
  /\ Len(spawn_points[obs.sut].queue) = 2
  /\ obs.queued[obs.sut] = spawn_points[obs.sut].queue
  /\ baddies = <<>>

----------------------------------------------------------------------------
(* The collision space on its own: SpecSpace *)

MaxTicks == 3
MaxInputs == 2
MaxSpaceClock == 1
MaxKeys == 2

\* an object of the hostile pool as it is some time after its creation
Placed(id, kind, x, y, traj) == NewBaddie(id, kind, <<x, y>>, traj)

\* Situations of a game in progress.  The player is at the centre.
\* Two wigglers either side of a bin boundary, on the player's line of fire
LayoutBoundary ==
  [t0 |-> 1, shields |-> 0,
   baddies |-> <<Placed(1, "Wiggler", 48, 50, 0), Placed(2, "Wiggler", 52, 48, 2)>>,
   bullets |-> <<NewBullet(3, <<59, 50>>, 2, 0, "good")>>]

\* The same wigglers further apart, no bullet in flight yet
LayoutApproach ==
  [t0 |-> 1, shields |-> 0,
   baddies |-> <<Placed(1, "Wiggler", 38, 50, 0), Placed(2, "Wiggler", 62, 48, 2)>>,
   bullets |-> <<>>]

\* A homer and a fast wiggler on top of each other, two bullets about to
\* arrive there
LayoutStack ==
  [t0 |-> 1, shields |-> 0,
   baddies |-> <<Placed(1, "Homer", 100, 52, 2), Placed(2, "FastWiggler", 100, 52, 1)>>,
   bullets |-> <<NewBullet(3, <<90, 52>>, 0, 0, "good"),
                 NewBullet(4, <<98, 44>>, 1, 0, "good")>>]

\* A shooter ready to fire, an upgrade next to the player, a hostile bullet
\* on its way to the player
LayoutShooter ==
  [t0 |-> 40, shields |-> 0,
   baddies |-> <<Placed(1, "Shooter", 30, 50, 0),
                 NewUpgrade(2, "ShieldUpgrade", <<75, 29>>, 1),
                 NewBullet(3, <<51, 50>>, 0, 0, "bad")>>,
   bullets |-> <<>>]

\* A wiggler about to reach the left wall, a bullet about to leave the
\* arena, the player shielded
LayoutWall ==
  [t0 |-> 1, shields |-> 1,
   baddies |-> <<Placed(1, "Wiggler", 7, 30, 2), Placed(2, "Homer", 92, 50, 2)>>,
   bullets |-> <<NewBullet(3, <<145, 50>>, 0, 0, "good")>>]

\* The player with one shield between two wigglers that reach it in the same
\* tick, one in the player's own bin (1,1), one in the bin above, (1,0)
LayoutShielded ==
  [t0 |-> 1, shields |-> 1,
   baddies |-> <<Placed(1, "Wiggler", 80, 56, 0), Placed(2, "Wiggler", 70, 44, 2)>>,
   bullets |-> <<>>]

\* Three upgrades drifting onto the player, two in its own bin and one in
\* the bin above, and one far away
LayoutPickups ==
  [t0 |-> 1, shields |-> 0,
   baddies |-> <<NewUpgrade(1, "BulletUpgrade", <<75, 62>>, 3),
                 NewUpgrade(2, "BulletUpgrade", <<60, 40>>, 0),
                 NewUpgrade(3, "SpeedUpgrade", <<86, 58>>, 2),
                 NewUpgrade(4, "ShieldUpgrade", <<20, 20>>, 0)>>,
   bullets |-> <<>>]

\* A hostile bullet that flies through a wiggler and an upgrade, a player
\* bullet that flies through the upgrade and meets the hostile bullet before
\* it reaches the wiggler; a shooter that fired 100 ms ago
LayoutCrossfire ==
  [t0 |-> 1, shields |-> 0,
   baddies |-> <<Placed(1, "Wiggler", 14, 20, 0),
                 NewBullet(2, <<10, 20>>, 0, 0, "bad"),
                 NewUpgrade(3, "SpeedUpgrade", <<30, 20>>, 2),
                 Placed(5, "Shooter", 120, 80, 2)>>,
   bullets |-> <<NewBullet(4, <<42, 20>>, 2, 0, "good")>>]

\* A shooter ready to fire below two hostile bullets about to leave the
\* arena, with a wiggler between them; two player bullets, the later one
\* about to leave
LayoutExit ==
  [t0 |-> 40, shields |-> 0,
   baddies |-> <<Placed(1, "Shooter", 30, 80, 0),
                 NewBullet(2, <<146, 20>>, 0, 0, "bad"),
                 Placed(3, "Wiggler", 40, 20, 0),
                 NewBullet(4, <<3, 70>>, 2, 0, "bad")>>,
   bullets |-> <<NewBullet(5, <<100, 90>>, 0, 0, "good"),
                 NewBullet(6, <<146, 90>>, 0, 0, "good")>>]

\* Two wigglers on top of each other in one bin with a bullet about to
\* arrive under both, two more in the player's own bin that both reach the
\* shielded player in the same tick
LayoutPile ==
  [t0 |-> 1, shields |-> 1,
   baddies |-> <<Placed(1, "Wiggler", 120, 80, 0), Placed(2, "Wiggler", 123, 82, 2),
                 Placed(3, "Wiggler", 80, 56, 0), Placed(4, "Wiggler", 72, 57, 2)>>,
   bullets |-> <<NewBullet(5, <<113, 81>>, 0, 0, "good")>>]

\* A wiggler just below the line between the rows of bins, a bullet about to
\* arrive under it just above that line
LayoutBelow ==
  [t0 |-> 1, shields |-> 0,
   baddies |-> <<Placed(1, "Wiggler", 100, 53, 0)>>,
   bullets |-> <<NewBullet(2, <<92, 49>>, 0, 0, "good")>>]

Layouts ==
  {LayoutBoundary, LayoutApproach, LayoutStack, LayoutShooter, LayoutWall,
   LayoutShielded, LayoutPickups, LayoutCrossfire, LayoutExit, LayoutPile,
   LayoutBelow}

\* the inputs of Input.tick: (js_dx, js_dy) and (js_fx, js_fy) of the keyboard
TestMoves == {<<0, 0>>, <<0, 1>>}
TestFires == {<<0, 0>>, <<-1, 0>>}

\* the draws of one tick
TestRnd ==
  [delta : {0}, turn : {<<>>, <<1>>},
   drops : {{}, {"BulletUpgrade", "ShieldUpgrade"}}, utraj : {3}]

InitSpace ==
  \E lay \in Layouts :
    /\ now = lay.t0
    /\ levels = <<LevelInit(ProgA)>>
    /\ lev_i = 0
    /\ spawn_points = [s \in SpawnIdx |-> SpawnPointInit]
    /\ baddies = lay.baddies
    /\ bullets = lay.bullets
    /\ bins = NoBins
    /\ player = [PlayerInit EXCEPT !.shields = lay.shields]
    /\ winner = FALSE
    /\ paused = FALSE
    /\ nextId = Len(lay.baddies) + Len(lay.bullets) + 1
    /\ last = [op |-> "init"]
    /\ obs = [ObsInit EXCEPT !.horizon = lay.t0 + MaxSpaceClock]

TheSpace == SpaceOf(baddies, bullets, bins, player, nextId)

\* CollisionSpace.tick
SsTick ==
  /\ obs.ticks < MaxTicks
  /\ \E rnd \in TestRnd :
       \E S \in {CollisionSpace_tick(TheSpace, rnd, now)} :
           /\ baddies' = S.baddies
           /\ bullets' = S.bullets
           /\ bins' = S.bins
           /\ player' = S.player
           /\ nextId' = S.nextId
           /\ last' = [op |-> "CollisionSpace.tick", kills |-> S.kills,
                       hits |-> S.hits, roll |-> rnd.drops,
                       events |-> S.events, shots |-> S.shots,
                       ticked |-> S.ticked,
                       raised |-> S.raised, unsound |-> S.unsound]
           /\ obs' = [obs EXCEPT !.ticks = @ + 1,
                                 !.killed = @ \o [k \in 1 .. Len(S.kills) |->
                                                    [id |-> S.kills[k].target,
                                                     kind |-> S.kills[k].kind]]]
  /\ UNCHANGED <<now, levels, lev_i, spawn_points, winner, paused>>

\* Input.tick, called as Main.tick calls it: while the player is not exploding
SsInput ==
  /\ obs.inputs < MaxInputs
  /\ ~player.exploding
  /\ \E mv \in TestMoves, fr \in TestFires :
       \E S \in {Input_tick(TheSpace, mv, fr, now)} :
           /\ bullets' = S.bullets
           /\ baddies' = S.baddies
           /\ player' = S.player
           /\ nextId' = S.nextId
           /\ last' = [op |-> "Input.tick", shots |-> S.shots]
  /\ obs' = [obs EXCEPT !.inputs = @ + 1]
  /\ UNCHANGED <<now, levels, lev_i, spawn_points, bins, winner, paused>>

\* the KEYUP events of Main.run that change the shield count
ShieldKeys == {"0", "9"}

\* Main.run, KEYUP of K_0 and K_9: one shield more, or one less if there is one
Main_shield_key(pl, key) ==
  IF key = "0" THEN [pl EXCEPT !.shields = @ + 1]
  ELSE IF pl.shields > 0 THEN [pl EXCEPT !.shields = @ - 1]
  ELSE pl

SsKey ==
  /\ obs.keys < MaxKeys
  /\ \E key \in ShieldKeys :
       /\ player' = Main_shield_key(player, key)
       /\ last' = [op |-> "KEYUP", key |-> key]
  /\ obs' = [obs EXCEPT !.keys = @ + 1]
  /\ UNCHANGED <<now, levels, lev_i, spawn_points, baddies, bullets, bins,
                 winner, paused, nextId>>

NextSpace == Advance \/ SsTick \/ SsInput

SpecSpace == InitSpace /\ [][NextSpace]_vars

\* The collision space with the shield keys of Main.run, in the situations
\* where the player is hit or picks up a shield
ShieldLayouts == {LayoutShielded, LayoutShooter, LayoutWall, LayoutExit}

InitShield ==
  /\ InitSpace
  /\ \E lay \in ShieldLayouts : baddies = lay.baddies /\ bullets = lay.bullets

NextShield == SsTick \/ SsInput \/ SsKey

SpecShield == InitShield /\ [][NextShield]_vars

----------------------------------------------------------------------------
(* Main: the frame loop *)

\* Main.tick: `self.player.expl_prog >= 30`.  Player.draw adds .5 to
\* expl_prog; the model counts expl_prog in halves, so the limit is 60.
ExplLimit == 60

\* Main.__init__: self.levels.  Delays are in clock units of 100 ms.
MainLevels ==
  << LevelInit(<<Entry(20, 0, "Wiggler", 20), Entry(20, 1, "Wiggler", 20),
                 Entry(20, 2, "Wiggler", 20), Entry(20, 3, "Wiggler", 20)>>),
     LevelInit(<<Entry(20, 0, "FastWiggler", 20), Entry(20, 1, "FastWiggler", 20),
                 Entry(20, 2, "FastWiggler", 20), Entry(20, 3, "FastWiggler", 20)>>),
     LevelInit(<<Entry(20, 0, "Homer", 20), Entry(20, 1, "Homer", 20),
                 Entry(20, 2, "Homer", 20), Entry(20, 3, "Homer", 20)>>),
     LevelInit(<<Entry(20, 0, "Shooter", 20), Entry(20, 1, "Shooter", 20),
                 Entry(20, 2, "Shooter", 20), Entry(20, 3, "Shooter", 20)>>),
     LevelInit(<<Entry(20, 0, "Wiggler", 20), Entry(20, 1, "Homer", 20),
                 Entry(20, 2, "Wiggler", 20), Entry(20, 3, "Homer", 20),
                 Entry(100, 1, "Homer", 20), Entry(100, 2, "Wiggler", 20),
                 Entry(100, 1, "Homer", 20), Entry(100, 2, "Wiggler", 20)>>),
     LevelInit(<<Entry(20, 0, "Wiggler", 100), Entry(20, 1, "Wiggler", 100),
                 Entry(20, 2, "Wiggler", 100), Entry(20, 3, "Wiggler", 100),
                 Entry(200, 2, "Shooter", 100), Entry(200, 2, "Shooter", 100),
                 Entry(200, 2, "Homer", 100), Entry(400, 3, "Homer", 100),
                 Entry(200, 2, "FastWiggler", 100),
                 Entry(400, 3, "FastWiggler", 100)>>) >>

\* The Main object: the fields Main.tick reads and writes, and what the
\* collision space did in this tick (kills, hits)
MainOf(lv, li, sps, bad, bul, bn, pl, win, id) ==
  [levels |-> lv, lev_i |-> li, spawn_points |-> sps, baddies |-> bad,
   bullets |-> bul, bins |-> bn, player |-> pl, winner |-> win, nextId |-> id,
   kills |-> <<>>, hits |-> <<>>, events |-> <<>>, shots |-> <<>>,
   orders |-> [s \in SpawnIdx |-> <<>>], released |-> <<>>]

\* the collision space of a Main object, and the Main object after a call
\* on its collision space
SpaceIn(M) ==
  [SpaceOf(M.baddies, M.bullets, M.bins, M.player, M.nextId)
     EXCEPT !.events = M.events, !.shots = M.shots]

SpaceOut(M, S) ==
  [M EXCEPT !.baddies = S.baddies, !.bullets = S.bullets, !.bins = S.bins,
            !.player = S.player, !.nextId = S.nextId, !.kills = S.kills,
            !.hits = S.hits, !.events = S.events, !.shots = S.shots]

\* Player.reset
Player_reset(pl) ==
  [pl EXCEPT !.last_fire_time = 0, !.exploding = FALSE, !.expl_prog = 0,
             !.gun_power = 0, !.speed = 4, !.score = 0]

\* Player.draw, as far as it changes the player
Player_draw(pl) == IF pl.exploding THEN [pl EXCEPT !.expl_prog = @ + 1] ELSE pl

\* Main.spawn_points_empty and Main.no_more_baddies
Main_spawn_points_empty(M) == \A s \in SpawnIdx : Len(M.spawn_points[s].queue) = 0
Main_no_more_baddies(M) == Main_spawn_points_empty(M) /\ Len(M.baddies) <= 0

\* the death reset without space.empty()
Main_reset_keepPools(M, t) ==
  [M EXCEPT !.spawn_points = [s \in SpawnIdx |-> SpawnPoint_clear(@[s])],
            !.player = [Player_reset(@) EXCEPT !.pos = <<Width \div 2, Height \div 2>>],
            !.lev_i = 0,
            !.levels[1] = Level_start(@, t)]

\* Main.tick, lines 1116 to 1121: the death reset
Main_reset(M, t) ==
  With([M EXCEPT !.spawn_points = [s \in SpawnIdx |-> SpawnPoint_clear(@[s])],
                 !.player = [Player_reset(@) EXCEPT
                               !.pos = <<Width \div 2, Height \div 2>>]],
       LAMBDA M1 :
         [SpaceOut(M1, CollisionSpace_empty(SpaceIn(M1))) EXCEPT
            !.lev_i = 0,
            !.levels[1] = Level_start(@, t)])

\* "Movement" with a death reset that does not wait for the explosion
Main_movement_atOnce(M, mv, fr, t) ==
  IF M.player.exploding
  THEN Main_reset(M, t)
  ELSE [SpaceOut(M, Input_tick(SpaceIn(M), mv, fr, t)) EXCEPT
          !.kills = <<>>, !.hits = <<>>]

\* Main.tick, "Movement": the death reset once the explosion is over, the
\* user's input while the player is not exploding
Main_movement(M, mv, fr, t) ==
  IF M.player.exploding
  THEN (IF M.player.expl_prog >= ExplLimit THEN Main_reset(M, t) ELSE M)
  ELSE [SpaceOut(M, Input_tick(SpaceIn(M), mv, fr, t)) EXCEPT
          !.kills = <<>>, !.hits = <<>>]

\* Main.tick, lines 1130 to 1140, with a test of the queues only
Main_progression_queuesOnly(M, t) ==
  IF M.lev_i < Len(M.levels) /\ Main_spawn_points_empty(M)
  THEN IF Level_done(M.levels[M.lev_i + 1])
       THEN IF M.lev_i + 1 < Len(M.levels)
            THEN [M EXCEPT !.lev_i = @ + 1,
                           !.levels[M.lev_i + 2] = Level_start(@, t)]
            ELSE [M EXCEPT !.lev_i = @ + 1, !.winner = TRUE]
       ELSE With(Level_jump_to_next_wave(M.levels[M.lev_i + 1], M.spawn_points, t),
                 LAMBDA r : [M EXCEPT !.levels[M.lev_i + 1] = r.level,
                                      !.spawn_points = r.spawns])
  ELSE IF ~M.winner
       THEN With(Level_tick(M.levels[M.lev_i + 1], M.spawn_points, t),
                 LAMBDA r : [M EXCEPT !.levels[M.lev_i + 1] = r.level,
                                      !.spawn_points = r.spawns])
       ELSE M

\* Main.tick, "Level Progression"
Main_progression(M, t) ==
  IF M.lev_i < Len(M.levels) /\ Main_no_more_baddies(M)
  THEN IF Level_done(M.levels[M.lev_i + 1])
       THEN IF M.lev_i + 1 < Len(M.levels)
            THEN [M EXCEPT !.lev_i = @ + 1,
                           !.levels[M.lev_i + 2] = Level_start(@, t)]
            ELSE [M EXCEPT !.lev_i = @ + 1, !.winner = TRUE]
       ELSE With(Level_jump_to_next_wave(M.levels[M.lev_i + 1], M.spawn_points, t),
                 LAMBDA r : [M EXCEPT !.levels[M.lev_i + 1] = r.level,
                                      !.spawn_points = r.spawns])
  ELSE IF ~M.winner
       THEN With(Level_tick(M.levels[M.lev_i + 1], M.spawn_points, t),
                 LAMBDA r : [M EXCEPT !.levels[M.lev_i + 1] = r.level,
                                      !.spawn_points = r.spawns])
       ELSE M

\* the spawn point ticks of Main.tick with spawn points that forget to
\* delete the order they have spawned
RECURSIVE Main_spawn_ticks_noPop(_, _, _)
Main_spawn_ticks_noPop(M, s, draws) ==
  IF s \notin SpawnIdx THEN M
  ELSE With(SpawnPoint_tick(s, M.spawn_points[s], M.baddies, M.nextId, draws[s]),
            LAMBDA r :
              Main_spawn_ticks_noPop(
                [M EXCEPT !.baddies = r.pool,
                          !.nextId = @ + (Len(r.pool) - Len(M.baddies)),
                          !.released = IF Len(r.pool) > Len(M.baddies)
                                       THEN Append(@, [spawn |-> s, id |-> M.nextId])
                                       ELSE @],
                s + 1, draws))

\* Main.tick, last line: the spawn points tick in order; draws[s] is the
\* random.randrange(100) of spawn point s.  M.released lists the spawn
\* points that have created a baddie, with the baddie's identity.
RECURSIVE Main_spawn_ticks(_, _, _)
Main_spawn_ticks(M, s, draws) ==
  IF s \notin SpawnIdx THEN M
  ELSE With(SpawnPoint_tick(s, M.spawn_points[s], M.baddies, M.nextId, draws[s]),
            LAMBDA r :
              Main_spawn_ticks(
                [M EXCEPT !.spawn_points[s] = r.sp,
                          !.baddies = r.pool,
                          !.nextId = @ + (Len(r.pool) - Len(M.baddies)),
                          !.released = IF Len(r.pool) > Len(M.baddies)
                                       THEN Append(@, [spawn |-> s, id |-> M.nextId])
                                       ELSE @],
                s + 1, draws))

\* Main.tick
Main_tick(M, mv, fr, rnd, draws, t) ==
  With(Main_movement(M, mv, fr, t), LAMBDA M1 :
    With(Main_progression(M1, t), LAMBDA M2 :
      With(SpaceOut(M2, CollisionSpace_tick(SpaceIn(M2), rnd, t)), LAMBDA M3 :
        Main_spawn_ticks(
          [M3 EXCEPT !.orders = [s \in SpawnIdx |-> M2.spawn_points[s].queue]],
          0, draws))))

----------------------------------------------------------------------------
(* The game: SpecMain *)

MaxFrames == 2
MaxEvents == 1

\* Situations of a game in progress.
\* Shortly before the first wave of level 1 is due
SceneOpening ==
  [now |-> 19, lev_i |-> 0,
   levels |-> [MainLevels EXCEPT ![1] = Level_start(@, 0)],
   queues |-> [s \in SpawnIdx |-> <<>>],
   baddies |-> <<>>, bullets |-> <<>>,
   player |-> PlayerInit, nextId |-> 1]

\* The last baddie of level 1, a bullet on its way to it
SceneLastBaddie ==
  [now |-> 60, lev_i |-> 0,
   levels |-> [MainLevels EXCEPT ![1] = [Level_start(@, 0) EXCEPT !.prog_i = 4]],
   queues |-> [s \in SpawnIdx |-> <<>>],
   baddies |-> <<Placed(80, "Wiggler", 48, 50, 0)>>,
   bullets |-> <<NewBullet(81, <<59, 50>>, 2, 0, "good")>>,
   player |-> [PlayerInit EXCEPT !.score = 15800, !.last_fire_time = 59],
   nextId |-> 82]

\* Level 2, all waves released: the player has run into a baddie and the
\* explosion is nearly over; orders are still queued, a bullet is in flight,
\* a shield upgrade lies under the player
SceneDying ==
  [now |-> 50, lev_i |-> 1,
   levels |-> [MainLevels EXCEPT
                 ![1] = [Level_start(@, 0) EXCEPT !.prog_i = 4],
                 ![2] = [Level_start(@, 25) EXCEPT !.prog_i = 4]],
   queues |-> [s \in SpawnIdx |->
                 IF s = 0 THEN <<"FastWiggler", "FastWiggler">>
                 ELSE IF s = 3 THEN <<"FastWiggler">> ELSE <<>>],
   baddies |-> <<Placed(90, "FastWiggler", 100, 30, 1),
                 NewUpgrade(91, "ShieldUpgrade", <<112, 72>>, 0)>>,
   bullets |-> <<NewBullet(92, <<30, 50>>, 2, 0, "good")>>,
   player |-> Built([PlayerInit EXCEPT !.pos = <<110, 70>>,
                                       !.score = 16600, !.exploding = TRUE,
                                       !.expl_prog = ExplLimit - 1,
                                       !.gun_power = 1, !.speed = 5,
                                       !.last_fire_time = 45]),
   nextId |-> 93]

\* The last baddie of the last level, a bullet on its way to it
SceneLastLevel ==
  [now |-> 2000, lev_i |-> Len(MainLevels) - 1,
   levels |-> [k \in 1 .. Len(MainLevels) |->
                 [Level_start(MainLevels[k], 200 * (k - 1)) EXCEPT
                    !.prog_i = Len(MainLevels[k].progression)]],
   queues |-> [s \in SpawnIdx |-> <<>>],
   baddies |-> <<Placed(80, "Wiggler", 48, 50, 0)>>,
   bullets |-> <<NewBullet(81, <<59, 50>>, 2, 0, "good")>>,
   player |-> [PlayerInit EXCEPT !.score = 212000, !.last_fire_time = 1999],
   nextId |-> 82]

Scenes == {SceneOpening, SceneLastBaddie, SceneDying, SceneLastLevel}

\* the clock values at which the fps check may have paused the level of the
\* scene (0: it has not)
TestPausedAt == {0, 48}

\* the draws of the four spawn points in one Main.tick: at most one succeeds
TestSpawnDraws ==
  {[s \in SpawnIdx |-> IF s = w THEN SpawnChance - 1 ELSE SpawnChance] :
     w \in TestSpawns \cup {-1}}

\* the inputs of Input.tick in one Main.tick: no key held, or "down" and
\* "fire left" held
MainInputs == {[mv |-> <<0, 0>>, fr |-> <<0, 0>>], [mv |-> <<0, 1>>, fr |-> <<-1, 0>>]}

\* the draws of the collision space in one Main.tick
MainRnd ==
  {[delta |-> 0, turn |-> <<>>, drops |-> {}, utraj |-> 3],
   [delta |-> 0, turn |-> <<1>>, drops |-> {"BulletUpgrade", "ShieldUpgrade"},
    utraj |-> 3]}

\* the KEYUP events of Main.run that the model lets happen
TestKeys == {"p", "F7"}

InitMain ==
  \E sc \in Scenes, at \in TestPausedAt :
    /\ at # 0 => at <= sc.now /\ at >= sc.levels[sc.lev_i + 1].start_time
    /\ now = sc.now
    /\ levels = IF at = 0 THEN sc.levels
                ELSE [sc.levels EXCEPT ![sc.lev_i + 1].paused = at]
    /\ lev_i = sc.lev_i
    /\ spawn_points = [s \in SpawnIdx |-> [queue |-> sc.queues[s], paused |-> at # 0]]
    /\ baddies = sc.baddies
    /\ bullets = sc.bullets
    /\ bins = NoBins
    /\ player = sc.player
    /\ winner = FALSE
    /\ paused = FALSE
    /\ nextId = sc.nextId
    /\ last = [op |-> "init"]
    /\ obs = [ObsInit EXCEPT !.horizon = sc.now + MaxSpaceClock]

TheMain ==
  MainOf(levels, lev_i, spawn_points, baddies, bullets, bins, player, winner, nextId)

\* Main.tick, run by Main.run while the game is not paused
MnTick ==
  /\ ~paused
  /\ obs.ticks < MaxFrames
  /\ \E in \in MainInputs, rnd \in MainRnd, draws \in TestSpawnDraws :
       /\ Len(baddies) >= MaxBaddies => \A s \in SpawnIdx : draws[s] >= SpawnChance
       /\ \E M \in {Main_tick(TheMain, in.mv, in.fr, rnd, draws, now)} :
            /\ levels' = M.levels
            /\ lev_i' = M.lev_i
            /\ spawn_points' = M.spawn_points
            /\ baddies' = M.baddies
            /\ bullets' = M.bullets
            /\ bins' = M.bins
            /\ player' = M.player
            /\ winner' = M.winner
            /\ nextId' = M.nextId
            /\ last' = [op |-> "Main.tick", kills |-> M.kills, hits |-> M.hits,
                        roll |-> rnd.drops,
                        events |-> M.events, shots |-> M.shots,
                        orders |-> M.orders, released |-> M.released,
                        reset |-> player.exploding /\ player.expl_prog >= ExplLimit,
                        exploding |-> player.exploding,
                        before |-> [baddies |-> Len(baddies),
                                    bullets |-> Len(bullets),
                                    queued |-> SumSeq([k \in 1 .. 4 |->
                                                 Len(spawn_points[k - 1].queue)]),
                                    lev_i |-> lev_i,
                                    paused |-> IF lev_i < Len(levels)
                                               THEN levels[lev_i + 1].paused
                                               ELSE 0]]
  /\ obs' = [obs EXCEPT !.ticks = @ + 1]
  /\ UNCHANGED <<now, paused>>

\* Main.run, the drawing process: Player.draw advances the explosion
MnDraw ==
  /\ player.exploding
  /\ player.expl_prog <= ExplLimit
  /\ player' = Player_draw(player)
  /\ last' = [op |-> "Player.draw"]
  /\ UNCHANGED <<now, levels, lev_i, spawn_points, baddies, bullets, bins,
                 winner, paused, nextId, obs>>

\* Main.run, the frame-rate check: a paused level resumes when the frame
\* rate is back, a running one pauses when the frame rate is low
MnFps ==
  /\ obs.inputs < MaxEvents
  /\ obs' = [obs EXCEPT !.inputs = @ + 1]
  /\ lev_i < Len(levels)
  /\ \E slow \in BOOLEAN :
       /\ slow <=> levels[lev_i + 1].paused = 0
       /\ \E r \in {IF slow
                    THEN Level_pause(levels[lev_i + 1], spawn_points, now)
                    ELSE Level_resume(levels[lev_i + 1], spawn_points, now)} :
            /\ levels' = [levels EXCEPT ![lev_i + 1] = r.level]
            /\ spawn_points' = r.spawns
       /\ last' = [op |-> IF slow THEN "Level.pause" ELSE "Level.resume"]
  /\ UNCHANGED <<now, lev_i, baddies, bullets, bins, player, winner, paused, nextId>>

\* Main.run, the KEYUP events: p toggles the pause of the game, F7 makes a
\* spawn point chosen at random spawn a Wiggler
MnKey ==
  /\ obs.inputs < MaxEvents
  /\ obs' = [obs EXCEPT !.inputs = @ + 1]
  /\ \E key \in TestKeys :
       /\ IF key = "p"
          THEN /\ paused' = ~paused
               /\ UNCHANGED <<baddies, nextId>>
          ELSE /\ Len(baddies) < MaxBaddies
               /\ \E s \in TestSpawns :
                    baddies' = SpawnPoint_spawn(s, baddies, nextId, "Wiggler")
               /\ nextId' = nextId + 1
               /\ UNCHANGED paused
       /\ last' = [op |-> "KEYUP", key |-> key]
  /\ UNCHANGED <<now, levels, lev_i, spawn_points, bullets, bins, player, winner>>

NextMain == Advance \/ MnTick \/ MnDraw \/ MnFps \/ MnKey

SpecMain == InitMain /\ [][NextMain]_vars

----------------------------------------------------------------------------
(* The frames of Main.run: SpecFrame *)

MaxLoops == 3

\* Main.run, lines 1154 to 1161: the frame-rate check; `slow` is
\* fps_timer.get_fps() < self.min_fps
Main_fps_check(M, slow, t) ==
  IF M.lev_i < Len(M.levels)
  THEN IF M.levels[M.lev_i + 1].paused # 0
       THEN IF ~slow
            THEN With(Level_resume(M.levels[M.lev_i + 1], M.spawn_points, t),
                      LAMBDA r : [M EXCEPT !.levels[M.lev_i + 1] = r.level,
                                           !.spawn_points = r.spawns])
            ELSE M
       ELSE IF slow
            THEN With(Level_pause(M.levels[M.lev_i + 1], M.spawn_points, t),
                      LAMBDA r : [M EXCEPT !.levels[M.lev_i + 1] = r.level,
                                           !.spawn_points = r.spawns])
            ELSE M
  ELSE M

\* what a frame's tick finds: the active level's pause flag and the
\* spawn points' pause flags
PauseState(M) ==
  [active |-> M.lev_i < Len(M.levels),
   level  |-> IF M.lev_i < Len(M.levels) THEN M.levels[M.lev_i + 1].paused ELSE 0,
   spawns |-> {s \in SpawnIdx : M.spawn_points[s].paused},
   queues |-> [s \in SpawnIdx |-> M.spawn_points[s].queue]]

\* Main.run, one pass of the loop with no KEYUP event pending: the
\* frame-rate check, Main.tick, the drawing process
MnFrame ==
  /\ ~paused
  /\ obs.ticks < MaxLoops
  /\ \E slow \in BOOLEAN, in \in MainInputs, rnd \in MainRnd,
        draws \in TestSpawnDraws :
       /\ Len(baddies) >= MaxBaddies => \A s \in SpawnIdx : draws[s] >= SpawnChance
       /\ \E C \in {Main_fps_check(TheMain, slow, now)} :
            \E M \in {Main_tick(C, in.mv, in.fr, rnd, draws, now)} :
              /\ levels' = M.levels
              /\ lev_i' = M.lev_i
              /\ spawn_points' = M.spawn_points
              /\ baddies' = M.baddies
              /\ bullets' = M.bullets
              /\ bins' = M.bins
              /\ player' = Player_draw(M.player)
              /\ winner' = M.winner
              /\ nextId' = M.nextId
              /\ last' = [op |-> "frame", slow |-> slow,
                          before |-> PauseState(TheMain),
                          checked |-> PauseState(C),
                          orders |-> M.orders, released |-> M.released,
                          reset |-> player.exploding /\ player.expl_prog >= ExplLimit,
                          exploding |-> player.exploding,
                          moved |-> M.baddies # C.baddies]
  /\ obs' = [obs EXCEPT !.ticks = @ + 1]
  /\ UNCHANGED <<now, paused>>

NextFrame == Advance \/ MnFrame

SpecFrame == InitMain /\ [][NextFrame]_vars

----------------------------------------------------------------------------
(* The entities on their own: SpecShip *)

MaxShipOps == 3

\* the objects the calls are made on: the player, and one object of the
\* hostile pool
TestShips ==
  {Placed(1, "Homer", 40, 30, 0), Placed(1, "Shooter", 40, 30, 1),
   NewUpgrade(1, "SpeedUpgrade", <<40, 30>>, 1)}

\* the arguments of move, rotate (in quarter turns) and move_forward
\* (amt as numerator and denominator)
TestDeltas == {<<1, 0>>, <<0, -1>>}
TestTurns == {1, -1}
TestAmts == {<<-1, 2>>, <<0, 1>>, <<1, 2>>, <<1, 1>>, <<3, 2>>}

InitShip ==
  /\ now = 0
  /\ levels = <<LevelInit(ProgA)>>
  /\ lev_i = 0
  /\ spawn_points = [s \in SpawnIdx |-> SpawnPointInit]
  /\ \E e \in TestShips : baddies = <<e>>
  /\ bullets = <<>>
  /\ bins = NoBins
  /\ player = PlayerInit
  /\ winner = FALSE
  /\ paused = FALSE
  /\ nextId = 2
  /\ last = [op |-> "init"]
  /\ obs = ObsInit

\* the object a call is made on, and the state with that object replaced
Target(who) == IF who = "player" THEN player ELSE baddies[1]
SpeedOf(e) == IF e.kind = "Player" THEN e.speed ELSE BaddieSpeed(e.kind)

ShipStep(who, e, rec) ==
  /\ obs.ticks < MaxShipOps
  /\ IF who = "player"
     THEN player' = e /\ UNCHANGED baddies
     ELSE baddies' = <<e>> /\ UNCHANGED player
  /\ last' = rec
  /\ obs' = [obs EXCEPT !.ticks = @ + 1]
  /\ UNCHANGED <<now, levels, lev_i, spawn_points, bullets, bins, winner,
                 paused, nextId>>

\* Positional.move, Upgrade.move
ShMove ==
  \E who \in {"player", "baddie"}, d \in TestDeltas :
    /\ IsShip(Target(who)) \/ IsUpgrade(Target(who))
    /\ ShipStep(who, Move(Target(who), d[1], d[2]),
                [op |-> "move", who |-> who, before |-> Target(who)])

\* Ship.rotate
ShRotate ==
  \E who \in {"player", "baddie"}, dt \in TestTurns :
    /\ IsShip(Target(who))
    /\ ShipStep(who, Ship_rotate(Target(who), dt),
                [op |-> "rotate", who |-> who, before |-> Target(who)])

\* Ship.move_forward
ShForward ==
  \E who \in {"player", "baddie"}, amt \in TestAmts :
    /\ IsShip(Target(who))
    /\ (SpeedOf(Target(who)) * amt[1]) % amt[2] = 0
    /\ \E r \in {Ship_move_forward(Target(who), SpeedOf(Target(who)),
                                    amt[1], amt[2])} :
         ShipStep(who, r.ship,
                  [op |-> "move_forward", who |-> who, before |-> Target(who),
                   amt |-> amt, raised |-> r.raised])

\* Upgrade.tick
ShDrift ==
  /\ IsUpgrade(baddies[1])
  /\ ShipStep("baddie", Upgrade_tick(baddies[1]),
              [op |-> "Upgrade.tick", who |-> "baddie", before |-> baddies[1]])

\* _build_rect
ShQuery ==
  \E who \in {"player", "baddie"} :
    /\ IsShip(Target(who)) \/ IsUpgrade(Target(who))
    /\ ShipStep(who, Built(Target(who)),
                [op |-> "_build_rect", who |-> who, before |-> Target(who),
                 result |-> BuildRect(Target(who))])

NextShip == ShMove \/ ShRotate \/ ShForward \/ ShDrift \/ ShQuery

SpecShip == InitShip /\ [][NextShip]_vars

----------------------------------------------------------------------------
(* The bin query on its own: SpecBins *)

\* the displacements that take the querying player over the arena
QuerySteps == {<<5, 0>>, <<-5, 0>>, <<0, 5>>, <<0, -5>>}

InitBins ==
  /\ now = 0
  /\ levels = <<LevelInit(ProgA)>>
  /\ lev_i = 0
  /\ spawn_points = [s \in SpawnIdx |-> SpawnPointInit]
  /\ baddies = <<>>
  /\ bullets = <<>>
  /\ bins = NoBins
  /\ player = PlayerInit
  /\ winner = FALSE
  /\ paused = FALSE
  /\ nextId = 1
  /\ last = [op |-> "init"]
  /\ obs = ObsInit

\* Positional.move of the player, within the arena
BnMove ==
  /\ \E d \in QuerySteps :
       /\ ~OutOfBounds(<<player.pos[1] + d[1], player.pos[2] + d[2]>>)
       /\ player' = Move(player, d[1], d[2])
  /\ last' = [op |-> "move"]
  /\ UNCHANGED <<now, levels, lev_i, spawn_points, baddies, bullets, bins,
                 winner, paused, nextId, obs>>

\* _get_bins_idxs(self.player), as the player scan of CollisionSpace.tick
\* calls it
BnQuery ==
  /\ last' = [op |-> "_get_bins_idxs", pos |-> player.pos,
              bins |-> GetBinsIdxs(player.pos)]
  /\ UNCHANGED <<now, levels, lev_i, spawn_points, baddies, bullets, bins,
                 player, winner, paused, nextId, obs>>

NextBins == BnMove \/ BnQuery

SpecBins == InitBins /\ [][NextBins]_vars

----------------------------------------------------------------------------
(* Insertion into the collision space on its own: SpecAdd *)

MaxAdds == 3

\* CollisionSpace.add(obj) for one object of any type: the space after the
\* call, whether the call raised, and whether it printed 'Unrecognized type'
CollisionSpace_add_any(S, obj) ==
  IF IsBullet(obj) \/ IsBaddie(obj)
  THEN [raised |-> FALSE, printed |-> FALSE,
        space |-> CollisionSpace_add(S, <<obj>>)]
  ELSE [raised |-> FALSE, printed |-> TRUE, space |-> S]

\* the objects presented to add: a baddie, a bullet of either side, an
\* upgrade, and two objects that are no entity of a pool (the player, a
\* spawn point)
TestObjects(id) ==
  {NewBaddie(id, "Wiggler", <<40, 30>>, 0),
   NewBaddie(id, "Shooter", <<90, 60>>, 2),
   NewBullet(id, <<20, 20>>, 0, 0, "good"),
   NewBullet(id, <<20, 80>>, 1, 0, "bad"),
   NewUpgrade(id, "ShieldUpgrade", <<60, 60>>, 0),
   PlayerInit,
   [kind |-> "SpawnPoint", pos |-> SpawnPos(0), traj |-> SpawnTraj(0)]}

\* CollisionSpace.add, called with an object of any type
AdAdd ==
  /\ obs.ticks < MaxAdds
  /\ \E obj \in TestObjects(nextId) :
       \E r \in {CollisionSpace_add_any(TheSpace, obj)} :
         /\ baddies' = r.space.baddies
         /\ bullets' = r.space.bullets
         /\ last' = [op |-> "CollisionSpace.add", obj |-> obj,
                     raised |-> r.raised, printed |-> r.printed]
  /\ nextId' = nextId + 1
  /\ obs' = [obs EXCEPT !.ticks = @ + 1]
  /\ UNCHANGED <<now, levels, lev_i, spawn_points, bins, player, winner, paused>>

SpecAdd == InitBins /\ [][AdAdd]_vars

----------------------------------------------------------------------------
(* The wall bounce on its own: SpecBounce *)

MaxBounces == 2

\* the places an object can be at when _tick_baddie tests the walls: inside,
\* touching a wall, and any distance beyond one wall or two
StrayXs == {-30, -6, 0, 5, 6, 75, 144, 145, 150, 181}
StrayYs == {-30, -6, 0, 6, 50, 94, 100, 131}
Strays ==
  {NewBaddie(1, k, <<x, y>>, q) :
     k \in {"Wiggler", "Shooter"}, x \in StrayXs, y \in StrayYs, q \in 0 .. 3}
  \cup {NewUpgrade(1, "ShieldUpgrade", <<x, y>>, q) :
           x \in StrayXs, y \in StrayYs, q \in 0 .. 3}

InitBounce ==
  /\ now = 0
  /\ levels = <<LevelInit(ProgA)>>
  /\ lev_i = 0
  /\ spawn_points = [s \in SpawnIdx |-> SpawnPointInit]
  /\ \E e \in Strays : baddies = <<e>>
  /\ bullets = <<>>
  /\ bins = NoBins
  /\ player = PlayerInit
  /\ winner = FALSE
  /\ paused = FALSE
  /\ nextId = 2
  /\ last = [op |-> "init"]
  /\ obs = ObsInit

\* _tick_baddie from `rect = baddie._build_rect()` on, without the insertion
BcBounce ==
  /\ obs.ticks < MaxBounces
  /\ \E e \in {Bounce(baddies[1])} :
       /\ baddies' = <<e>>
       /\ last' = [op |-> "bounce", before |-> baddies[1], after |-> e]
  /\ obs' = [obs EXCEPT !.ticks = @ + 1]
  /\ UNCHANGED <<now, levels, lev_i, spawn_points, bullets, bins, player,
                 winner, paused, nextId>>

SpecBounce == InitBounce /\ [][BcBounce]_vars

----------------------------------------------------------------------------
(* The frames of Main.run without end: SpecLive *)

\* the number of baddies the spawn points may create before the frames stop
MaxIds == 1

\* the draws of the four spawn points when that of spawn point w succeeds
\* (none does for w = -1)
LiveDraws(w) == [s \in SpawnIdx |-> IF s = w THEN SpawnChance - 1 ELSE SpawnChance]

\* how far the clock runs on: beyond the first delay of level 1
MaxLiveClock == 20

\* the game of SceneDying, the level paused by the frame-rate check or not
InitLive ==
  \E at \in TestPausedAt :
    /\ now = SceneDying.now
    /\ levels = IF at = 0 THEN SceneDying.levels
                ELSE [SceneDying.levels EXCEPT ![SceneDying.lev_i + 1].paused = at]
    /\ lev_i = SceneDying.lev_i
    /\ spawn_points = [s \in SpawnIdx |->
                         [queue |-> SceneDying.queues[s], paused |-> at # 0]]
    /\ baddies = SceneDying.baddies
    /\ bullets = SceneDying.bullets
    /\ bins = NoBins
    /\ player = SceneDying.player
    /\ winner = FALSE
    /\ paused = FALSE
    /\ nextId = SceneDying.nextId
    /\ last = [op |-> "init"]
    /\ obs = [ObsInit EXCEPT !.horizon = SceneDying.now + MaxLiveClock]

\* no more identities to give
AtBound == nextId >= SceneDying.nextId + MaxIds

\* Main.run, one pass of the loop with no key held and no KEYUP event: the
\* frame-rate check, Main.tick, the drawing process.  The frame rate is below
\* the floor only in frames that draw an explosion.  last.served is the set
\* of spawn points whose first order has left the queue in this frame,
\* spawned by the spawn point's tick or dropped by the death reset;
\* last.lucky is the spawn point whose draw succeeded; last.flip tells a
\* frame from the one before.
LfFrame(slow, w) ==
  /\ ~paused
  /\ ~AtBound
  /\ slow => player.exploding
  /\ \E C \in {Main_fps_check(TheMain, slow, now)} :
       \E M \in {Main_tick(C, <<0, 0>>, <<0, 0>>,
                           [delta |-> 0, turn |-> <<>>, drops |-> {}, utraj |-> 3],
                           LiveDraws(w), now)} :
         /\ levels' = M.levels
         /\ lev_i' = M.lev_i
         /\ spawn_points' = M.spawn_points
         /\ baddies' = M.baddies
         /\ bullets' = M.bullets
         /\ bins' = M.bins
         /\ player' = Player_draw(M.player)
         /\ winner' = M.winner
         /\ nextId' = M.nextId
         /\ last' = [op |-> "frame", slow |-> slow, lucky |-> w,
                     flip |-> IF last.op = "frame" THEN 1 - last.flip ELSE 0,
                     served |->
                       {s \in SpawnIdx :
                          \/ \E k \in 1 .. Len(M.released) : M.released[k].spawn = s
                          \/ /\ player.exploding /\ player.expl_prog >= ExplLimit
                             /\ Len(spawn_points[s].queue) > 0}]
  /\ UNCHANGED <<now, paused, obs>>

NextLive ==
  Advance \/ \E slow \in BOOLEAN, w \in SpawnIdx \cup {-1} : LfFrame(slow, w)

\* The clock advances while it can
SpecLive == InitLive /\ [][NextLive]_vars /\ WF_vars(Advance)

----------------------------------------------------------------------------
(* Properties of the bullet loop of CollisionSpace.tick *)

Range(seq) == {seq[k] : k \in 1 .. Len(seq)}

\* the baddies (ships) of a pool, by identity
BaddieIds(pool) == {pool[k].id : k \in {j \in 1 .. Len(pool) : IsBaddie(pool[j])}}

\* C9: in one CollisionSpace.tick no player bullet hits twice: the hits are
\* made by pairwise different bullets, each of them was in the player-bullet
\* pool before the tick and is not after it, the baddies that left the
\* hostile pool are exactly the targets of those hits and the objects the
\* player ran into, and so no more baddies fall to bullets than bullets
\* disappear.
C9_OneKillPerBullet ==
  [][last'.op = "CollisionSpace.tick" =>
       LET kills == last'.kills
           gone == BaddieIds(baddies) \ BaddieIds(baddies')
           spent == Ids(bullets) \ Ids(bullets')
       IN  /\ \A i, j \in 1 .. Len(kills) :
                i # j => /\ kills[i].bullet # kills[j].bullet
                         /\ kills[i].target # kills[j].target
           /\ \A i \in 1 .. Len(kills) :
                /\ kills[i].bullet \in spent
                /\ kills[i].target \in gone
           /\ gone \ Range(last'.hits) = {kills[i].target : i \in 1 .. Len(kills)}
           /\ Cardinality(gone \ Range(last'.hits)) <= Cardinality(spent)]_vars

\* a tick in which one bullet hit one baddie while another baddie, stored in
\* a different bin that the bullet queries, covers the bullet's position too
\* and survives
C9_Witness ==
  /\ last.op = "CollisionSpace.tick"
  /\ Len(last.kills) = 1
  /\ \E k \in 1 .. Len(baddies) :
       /\ IsBaddie(baddies[k])
       /\ CollidePoint(FreshRect(baddies[k]), last.kills[1].at)
       /\ GetSimpleBinsIdxs(baddies[k].pos) # GetSimpleBinsIdxs(last.kills[1].pos)
       /\ GetSimpleBinsIdxs(baddies[k].pos) \in Range(GetBinsIdxs(last.kills[1].at))

\* the upgrades created during a step: those of the hostile pool after it
\* whose identity did not exist before it
NewUpgrades == SelectSeq(baddies', LAMBDA e : IsUpgrade(e) /\ e.id >= nextId)

\* C10 (one tick): the score grows by the sum of the score values of the
\* classes of the baddies hit; each of them was in the hostile pool and is
\* afterwards neither in the pool nor in any bin; the bullet that hit it is
\* no longer in the player-bullet pool; and the upgrades of the drop roll,
\* one of each class rolled for each baddie hit, placed where the baddie was,
\* are the last objects of the hostile pool.
C10_HitStep ==
  [][last'.op = "CollisionSpace.tick" =>
       LET kills == last'.kills
           ups == NewUpgrades
       IN  /\ player'.score = player.score
                + SumSeq([i \in 1 .. Len(kills) |-> BaddieScore(kills[i].kind)])
           /\ \A i \in 1 .. Len(kills) :
                /\ kills[i].target \in BaddieIds(baddies)
                /\ Obj(baddies, kills[i].target).kind = kills[i].kind
                /\ kills[i].target \notin Ids(baddies')
                /\ \A ij \in BinIdx : kills[i].target \notin Range(bins'[ij])
                /\ kills[i].bullet \notin Ids(bullets')
                /\ \A c \in last'.roll :
                     \E n \in 1 .. Len(ups) :
                       ups[n].kind = c /\ ups[n].pos = kills[i].pos
           /\ Len(ups) = Len(kills) * Cardinality(last'.roll)
           /\ Len(ups) <= Len(baddies')
           /\ SubSeq(baddies', Len(baddies') - Len(ups) + 1, Len(baddies')) = ups]_vars

\* C10 (any sequence of ticks): no baddie is hit twice, a baddie that was hit
\* is in no pool and no bin, and the score is the sum of the score values of
\* the baddies hit so far.
C10_CreditedOnce ==
  /\ \A i, j \in 1 .. Len(obs.killed) :
       i # j => obs.killed[i].id # obs.killed[j].id
  /\ \A i \in 1 .. Len(obs.killed) :
       /\ obs.killed[i].id \notin Ids(baddies)
       /\ bins # NoBins =>
            \A ij \in BinIdx : obs.killed[i].id \notin Range(bins[ij])
  /\ player.score =
       SumSeq([i \in 1 .. Len(obs.killed) |-> BaddieScore(obs.killed[i].kind)])

C10_HitCreditsOnce == C10_HitStep /\ []C10_CreditedOnce

\* a Wiggler has been hit: 200 points, the two upgrades rolled are in the
\* hostile pool where it was, and it is gone
C10_Witness ==
  /\ last.op = "CollisionSpace.tick"
  /\ Len(last.kills) = 1
  /\ last.kills[1].kind = "Wiggler"
  /\ last.kills[1].drops = 2
  /\ player.score = 200
  /\ Len(baddies) >= 2
  /\ IsUpgrade(baddies[Len(baddies)])
  /\ baddies[Len(baddies)].pos = last.kills[1].pos

----------------------------------------------------------------------------
(* Properties of the death reset *)

\* C8: a Main.tick that starts with the player exploding and the explosion
\* over (the death reset runs) ends with the hostile pool, the player-bullet
\* pool, every bin and every spawn queue empty, Main back on its first
\* level, that level at index 0 with the clock of this tick as start time
\* and not paused, and the player no longer exploding.
C8_DeathResetClears ==
  [][(last'.op = "Main.tick" /\ player.exploding /\ player.expl_prog >= ExplLimit) =>
       /\ baddies' = <<>>
       /\ bullets' = <<>>
       /\ \A ij \in BinIdx : bins'[ij] = <<>>
       /\ \A s \in SpawnIdx : spawn_points'[s].queue = <<>>
       /\ lev_i' = 0
       /\ levels'[1].prog_i = 0
       /\ levels'[1].start_time = now
       /\ levels'[1].paused = 0
       /\ ~player'.exploding]_vars

\* the death reset has just run on a game that was on its second level,
\* paused by the frame-rate check, with baddies, player bullets and queued
\* orders
C8_Witness ==
  /\ last.op = "Main.tick"
  /\ last.reset
  /\ last.before.baddies > 0
  /\ last.before.bullets > 0
  /\ last.before.queued > 0
  /\ last.before.lev_i = 1
  /\ last.before.paused # 0
  /\ baddies = <<>>
  /\ bullets = <<>>
  /\ lev_i = 0


----------------------------------------------------------------------------
(* Properties of the player scan of CollisionSpace.tick *)

\* the step is a tick of the collision space (on its own or in Main.tick)
TickStep == last'.op \in {"CollisionSpace.tick", "Main.tick"}

\* C11: in one CollisionSpace.tick the player takes at most one hit: the
\* scan records at most one hit, and nothing (no further hit, no pickup from
\* a bin examined later) happens in the scan after a hit.
C11_OneHitPerTick ==
  [][ TickStep =>
        /\ Len(last'.hits) <= 1
        /\ \A i \in 1 .. Len(last'.events) :
             last'.events[i].ev = "hit" => i = Len(last'.events) ]_vars

\* the events of kind ev in the scan of the step
EventsOf(ev) == SelectSeq(last'.events, LAMBDA x : x.ev = ev)

\* C12 (hits): every hit of the scan finds the player either shielded, and
\* then takes exactly one shield and leaves everything else, the exploding
\* flag included, as it was, or unshielded, and then sets the exploding flag
\* and leaves the shield count at 0; over the tick the shield count changes
\* by the shield upgrades picked up minus the shielded hits, and the player
\* is exploding afterwards iff it was before or took an unshielded hit.
C12_HitStep ==
  [][ TickStep =>
        LET hits == EventsOf("hit")
            shielded == SelectSeq(hits, LAMBDA x : x.before.shields > 0)
            bare == SelectSeq(hits, LAMBDA x : x.before.shields = 0)
            gained == SelectSeq(EventsOf("pick"),
                                LAMBDA x : x.kind = "ShieldUpgrade")
        IN  /\ Len(hits) = Len(shielded) + Len(bare)
            /\ \A i \in 1 .. Len(shielded) :
                 /\ shielded[i].after =
                      [shielded[i].before EXCEPT !.shields = @ - 1]
                 /\ shielded[i].after.exploding = shielded[i].before.exploding
            /\ \A i \in 1 .. Len(bare) :
                 /\ bare[i].after = [bare[i].before EXCEPT !.exploding = TRUE]
                 /\ bare[i].after.shields = 0
            /\ player'.shields = player.shields + Len(gained) - Len(shielded)
            /\ player'.exploding <=> (player.exploding \/ Len(bare) > 0) ]_vars

\* C12 (keys): K_0 adds one shield, K_9 takes one if there is one
C12_KeyStep ==
  [][ last'.op = "KEYUP" =>
        player'.shields = IF last'.key = "0" THEN player.shields + 1
                          ELSE IF player.shields > 0 THEN player.shields - 1
                          ELSE 0 ]_vars

\* C12: a hit with shields > 0 takes exactly one shield and does not set the
\* exploding flag, a hit with shields = 0 sets the exploding flag and leaves
\* shields at 0, and the shield count is never negative.
C12_ShieldedHits ==
  /\ C12_HitStep
  /\ C12_KeyStep
  /\ [](player.shields >= 0)

\* C12 witness: a tick in which the player lost its last shield to one
\* baddie and then, unshielded, was hit by another and is exploding
C12_Witness ==
  /\ last.op = "CollisionSpace.tick"
  /\ \E i, j \in 1 .. Len(last.events) :
       /\ last.events[i].ev = "hit" /\ last.events[i].before.shields = 1
       /\ last.events[i].after.shields = 0 /\ ~last.events[i].after.exploding
       /\ last.events[j].ev = "hit" /\ last.events[j].before.shields = 0
  /\ player.exploding
  /\ player.shields = 0

\* the number of upgrades of class k picked up in the step
Picked(k) == Len(SelectSeq(EventsOf("pick"), LAMBDA x : x.kind = k))

\* C13: every pickup of a tick is of an upgrade of the hostile pool, which
\* is afterwards neither in the pool nor in any bin; it adds one to the gun
\* power, the speed or the shield count, according to its class, and changes
\* nothing else of the player; no upgrade is picked up twice; over the tick
\* the three counts grow by the pickups of their class (the shield count
\* less the shielded hits); and the scan goes on after a pickup: when the
\* player was not hit and is not exploding (the scan ran through all its
\* bins), no upgrade is left in a scanned bin that overlaps the player.
C13_PickupOnce ==
  [][ TickStep =>
        LET picks == EventsOf("pick")
        IN  /\ \A i \in 1 .. Len(picks) :
                 /\ picks[i].id \in Ids(baddies)
                 /\ Obj(baddies, picks[i].id).kind = picks[i].kind
                 /\ picks[i].kind \in UpgradeKinds
                 /\ picks[i].id \notin Ids(baddies')
                 /\ \A ij \in BinIdx : picks[i].id \notin Range(bins'[ij])
                 /\ picks[i].after =
                      (CASE picks[i].kind = "BulletUpgrade" ->
                              [picks[i].before EXCEPT !.gun_power = @ + 1]
                         [] picks[i].kind = "SpeedUpgrade" ->
                              [picks[i].before EXCEPT !.speed = @ + 1]
                         [] picks[i].kind = "ShieldUpgrade" ->
                              [picks[i].before EXCEPT !.shields = @ + 1])
            /\ \A i, j \in 1 .. Len(picks) : i # j => picks[i].id # picks[j].id
            /\ player'.gun_power = player.gun_power + Picked("BulletUpgrade")
            /\ player'.speed = player.speed + Picked("SpeedUpgrade")
            /\ player'.shields + Len(SelectSeq(EventsOf("hit"),
                                               LAMBDA x : x.before.shields > 0))
                 = player.shields + Picked("ShieldUpgrade")
            /\ (Len(last'.hits) = 0 /\ ~player'.exploding) =>
                 \A k \in 1 .. Len(baddies') :
                   ~ /\ IsUpgrade(baddies'[k])
                     /\ baddies'[k].id \in Ids(baddies)
                     /\ GetSimpleBinsIdxs(baddies'[k].pos)
                          \in Range(GetBinsIdxs(player'.pos))
                     /\ CollideRect(FreshRect(baddies'[k]), FreshRect(player'))
      ]_vars

\* C13 witness: one tick in which the player picked up three upgrades, two
\* weapon upgrades and a speed upgrade, from two different bins
C13_Witness ==
  /\ last.op = "CollisionSpace.tick"
  /\ Len(last.events) = 3
  /\ \A i \in 1 .. 3 : last.events[i].ev = "pick"
  /\ \E i, j \in 1 .. 3 : last.events[i].bin # last.events[j].bin
  /\ player.gun_power = 2
  /\ player.speed = 5
  /\ \A k \in 1 .. Len(baddies) : baddies[k].kind = "ShieldUpgrade"

----------------------------------------------------------------------------
(* Properties of the guns *)

\* the step made fire requests: a tick of the collision space (the
\* shooters) or Input.tick (the player)
ShotStep == last'.op \in {"CollisionSpace.tick", "Input.tick", "Main.tick"}

\* the fire requests of the step that returned bullets
Fired == SelectSeq(last'.shots, LAMBDA x : Len(x.bullets) > 0)

\* the power and the side of the gun of a fire request: the player's gun,
\* or the gun of a shooter, Gun(screen, 0, 'bad')
PowerOf(x) == IF x.by = 0 THEN player.gun_power ELSE 0
SideOf(x) == IF x.by = 0 THEN "good" ELSE "bad"

\* the bullets of one shot start at one position with one aim, carry the
\* gun's side tag, and their headings are symmetric about the aim and one
\* step of 2/50 rad apart (`off` is the heading less the aim, in 1/50 rad)
FanOf(x) ==
  LET b == x.bullets
  IN  /\ \A k \in 1 .. Len(b) :
           /\ b[k].kind = "Bullet"
           /\ b[k].side = SideOf(x)
           /\ b[k].pos = b[1].pos
           /\ b[k].traj = b[1].traj
           /\ b[k].off + b[Len(b) + 1 - k].off = 0
      /\ \A k \in 1 .. Len(b) - 1 : b[k + 1].off - b[k].off = 2
      /\ x.by = 0 => b[1].pos = player'.pos
      /\ \A k \in 1 .. Len(b) :
           \E n \in 1 .. Len(IF x.by = 0 THEN bullets' ELSE baddies') :
             (IF x.by = 0 THEN bullets' ELSE baddies')[n].id = b[k].id

\* C14 (as claimed): a shot of a gun of power N is 2N+1 bullets, their
\* headings symmetric about the aim and evenly spaced, all at the firing
\* position and with the gun's side tag.
C14_FanOfTwoNPlusOne ==
  [][ ShotStep =>
        \A i \in 1 .. Len(Fired) :
          /\ Len(Fired[i].bullets) = 2 * PowerOf(Fired[i]) + 1
          /\ FanOf(Fired[i]) ]_vars

\* C14 (amended): a shot of a gun of power N is N+1 bullets, their headings
\* symmetric about the aim and evenly spaced, all at the firing position
\* and with the gun's side tag.
C14_FanOfNPlusOne ==
  [][ ShotStep =>
        \A i \in 1 .. Len(Fired) :
          /\ Len(Fired[i].bullets) = PowerOf(Fired[i]) + 1
          /\ FanOf(Fired[i]) ]_vars

\* C14 witness: the player, its gun at power 2 after two weapon upgrades,
\* has fired one shot of three bullets
C14_Witness ==
  /\ last.op = "Input.tick"
  /\ player.gun_power = 2
  /\ Len(last.shots) = 1
  /\ Len(last.shots[1].bullets) = 3
  /\ Len(bullets) = 3
  /\ \A k \in 1 .. 3 : bullets[k].off = 2 * k - 4 /\ bullets[k].pos = player.pos

\* the objects of a pool that are no longer in it after the step
Gone(before, after) ==
  SelectSeq(before, LAMBDA e : e.id \notin Ids(after))

\* C15 (pools): the player-bullet pool holds bullets tagged 'good' only,
\* and every bullet of the hostile pool is tagged 'bad'
C15_PoolsBySide ==
  /\ \A k \in 1 .. Len(bullets) : IsBullet(bullets[k]) /\ bullets[k].side = "good"
  /\ \A k \in 1 .. Len(baddies) : IsBullet(baddies[k]) => baddies[k].side = "bad"

\* C15 (one tick): what a tick removes.  A hit of a player bullet is made
\* by a bullet of the player-bullet pool, tagged 'good', on a baddie; an
\* upgrade leaves the hostile pool only when the player picks it up, a
\* hostile bullet only when it hits the player or leaves the arena, a
\* baddie only when a player bullet or the player hits it, a player bullet
\* only when it hits a baddie or leaves the arena; a bullet that hits the
\* player is tagged 'bad'; and without a hit or pickup in the player scan
\* the player's shields and exploding flag are as before.
C15_TickStep ==
  [][ TickStep =>
        LET kills == last'.kills
            targets == {kills[i].target : i \in 1 .. Len(kills)}
            spent == {kills[i].bullet : i \in 1 .. Len(kills)}
            hit == Range(last'.hits)
            picked == {last'.events[i].id :
                         i \in {j \in 1 .. Len(last'.events) :
                                  last'.events[j].ev = "pick"}}
            gone == Gone(baddies, baddies')
            used == Gone(bullets, bullets')
        IN  /\ \A i \in 1 .. Len(kills) :
                 /\ kills[i].bullet \in Ids(bullets)
                 /\ Obj(bullets, kills[i].bullet).side = "good"
                 /\ kills[i].target \in BaddieIds(baddies)
            /\ \A k \in 1 .. Len(gone) :
                 /\ IsUpgrade(gone[k]) => gone[k].id \in picked
                 /\ IsBullet(gone[k]) =>
                      \/ gone[k].id \in hit /\ gone[k].side = "bad"
                      \/ OutOfBounds(Bullet_tick(gone[k]).pos)
                 /\ IsBaddie(gone[k]) => gone[k].id \in targets \cup hit
            /\ \A k \in 1 .. Len(used) :
                 \/ used[k].id \in spent
                 \/ OutOfBounds(Bullet_tick(used[k]).pos)
            /\ Len(last'.events) = 0 =>
                 /\ player'.shields = player.shields
                 /\ player'.exploding = player.exploding ]_vars

\* C15: a player bullet removes only baddies and never an upgrade, a
\* hostile bullet or the player; a hostile bullet hits only the player and
\* never removes a baddie, an upgrade or a player bullet.
C15_SideDecidesDamage == []C15_PoolsBySide /\ C15_TickStep

\* C15 witness: a player bullet has flown through an upgrade and through a
\* hostile bullet, which has flown through a wiggler and the upgrade; the
\* player bullet has now hit the wiggler, the other two are still there
C15_Witness ==
  /\ last.op = "CollisionSpace.tick"
  /\ obs.ticks = 3
  /\ Len(last.kills) = 1
  /\ last.kills[1].bullet = 4
  /\ last.kills[1].target = 1
  /\ last.kills[1].at = <<18, 20>>
  /\ {2, 3} \subseteq Ids(baddies)
  /\ Obj(baddies, 2).pos = <<34, 20>>
  /\ Obj(baddies, 2).side = "bad"
  /\ Obj(baddies, 3).kind = "SpeedUpgrade"
  /\ bullets = <<>>

\* the cooldown of the shooter of a fire request
CooldownOf(x) == IF x.by = 0 THEN FireDelay ELSE FireRate

\* the bullets created by the step, in both pools
NewBullets ==
  SelectSeq(bullets' \o baddies', LAMBDA e : IsBullet(e) /\ e.id >= nextId)

----------------------------------------------------------------------------
(* Properties of the entities *)

\* the object the last call was made on, as it is now
Subject == IF last.who = "player" THEN player ELSE baddies[1]
SubjectAfter == IF last'.who = "player" THEN player' ELSE baddies'[1]

\* C17: move_forward(f) with f outside [0,1] raises the assertion error and
\* leaves the ship (position, heading, cached rectangle) as it was; with f
\* inside [0,1] it does not raise, displaces the ship along its heading by
\* speed * f and leaves the heading.
C17_MoveForwardRange ==
  [][ last'.op = "move_forward" =>
        LET e == last'.before
            f == last'.amt
            v == SpeedOf(e)
        IN  IF f[1] < 0 \/ f[1] > f[2]
            THEN /\ last'.raised
                 /\ SubjectAfter = e
            ELSE /\ ~last'.raised
                 /\ SubjectAfter.traj = e.traj
                 /\ f[2] * (SubjectAfter.pos[1] - e.pos[1]) = Cos(e.traj) * v * f[1]
                 /\ f[2] * (SubjectAfter.pos[2] - e.pos[2]) = Sin(e.traj) * v * f[1]
      ]_vars

\* C17 witness: move_forward(1.5) was refused on a ship with a cached
\* rectangle, which it still has
C17_Witness ==
  /\ last.op = "move_forward"
  /\ last.amt = <<3, 2>>
  /\ last.raised
  /\ Subject.rect # None
  /\ Subject.rect = FreshRect(Subject)
  /\ Subject.pos # <<40, 30>> /\ Subject.pos # PlayerInit.pos

\* C18: move, rotate and move_forward (and Upgrade.tick) leave the cached
\* rectangle stale, and a query returns, and caches, the rectangle of the
\* object's current position and heading.
C18_MutationInvalidates ==
  /\ [][ (\/ last'.op \in {"move", "rotate", "Upgrade.tick"}
          \/ last'.op = "move_forward" /\ ~last'.raised)
           => SubjectAfter.rect = None ]_vars
  /\ [][ last'.op = "_build_rect" =>
           /\ last'.result = FreshRect(last'.before)
           /\ SubjectAfter = [last'.before EXCEPT !.rect = last'.result] ]_vars

\* C18 witness: a homer with a cached rectangle was turned by a quarter
\* turn and queried again: the rectangle is the one of the new heading
C18_Witness ==
  /\ last.op = "_build_rect"
  /\ last.who = "baddie"
  /\ Subject.kind = "Homer"
  /\ Subject.traj = 1
  /\ Subject.pos = <<40, 30>>
  /\ last.result = [left |-> 35, top |-> 20, right |-> 46, bottom |-> 41]
  /\ obs.ticks = 3

----------------------------------------------------------------------------
(* Properties of the cached rectangles in the game loop *)

\* the cached rectangle of e, if it has one, is the rectangle of its
\* position and heading
RectCurrent(e) == e.rect # None => e.rect = FreshRect(e)

\* C19: the rectangles the tick has read are those of the current positions
\* and headings: after every Main.tick the player's cached rectangle (read by
\* the wall loops of that tick) and the cached rectangle of every ship and
\* upgrade in the pool are the rectangles of where they are.
C19_NoStaleRect ==
  [](last.op = "Main.tick" =>
       /\ player.rect # None
       /\ RectCurrent(player)
       /\ \A k \in 1 .. Len(baddies) :
            ~IsBullet(baddies[k]) => RectCurrent(baddies[k]))

\* the rectangle r lies within the arena
InArena(r) ==
  r.left >= 0 /\ r.top >= 0 /\ r.right <= Width /\ r.bottom <= Height

\* C20: after every Main.tick the bounding rectangle of the player and of
\* every baddie and upgrade in the hostile pool, those created in that tick
\* included, lies within the arena, and every bullet in either pool has its
\* position within the arena.
C20_AllInsideArena ==
  [](last.op = "Main.tick" =>
       /\ InArena(FreshRect(player))
       /\ \A k \in 1 .. Len(baddies) :
            IF IsBullet(baddies[k])
            THEN ~OutOfBounds(baddies[k].pos)
            ELSE InArena(FreshRect(baddies[k]))
       /\ \A k \in 1 .. Len(bullets) : ~OutOfBounds(bullets[k].pos))

----------------------------------------------------------------------------
(* Properties of the bin query *)

\* the cell of a coordinate inside the arena, and its offset in the cell
CellOf(x) == x \div BinSize
OffsetOf(x) == x % BinSize
\* within the margin (a fifth of a cell) of the cell's lower resp. upper
\* boundary on an axis
NearLow(x) == BufDen * OffsetOf(x) < BinSize
NearHigh(x) == BufDen * OffsetOf(x) > (BufDen - 1) * BinSize
\* the bins a query has returned
Returned == Range(last.bins)
InsideArena(pos) ==
  pos[1] >= 0 /\ pos[1] < Width /\ pos[2] >= 0 /\ pos[2] < Height

\* C21: a query at a position within the margin of a cell boundary that is
\* not an arena edge returns the cell on the other side of that boundary
\* too (left, right, upper and lower boundary alike); a query at a position
\* farther than the margin from every boundary returns the primary bin only.
C21_BothAdjacentBins ==
  [](last.op = "_get_bins_idxs" /\ InsideArena(last.pos) =>
       LET i == CellOf(last.pos[1])
           j == CellOf(last.pos[2])
       IN  /\ <<i, j>> \in Returned
           /\ NearLow(last.pos[1]) /\ i > 0 => <<i - 1, j>> \in Returned
           /\ NearHigh(last.pos[1]) /\ i < Cols - 1 => <<i + 1, j>> \in Returned
           /\ NearLow(last.pos[2]) /\ j > 0 => <<i, j - 1>> \in Returned
           /\ NearHigh(last.pos[2]) /\ j < Rows - 1 => <<i, j + 1>> \in Returned
           /\ (~NearLow(last.pos[1]) /\ ~NearHigh(last.pos[1]) /\
               ~NearLow(last.pos[2]) /\ ~NearHigh(last.pos[2]))
                => last.bins = <<<<i, j>>>>)

\* C29: a query returns a diagonal neighbour (a bin that differs from the
\* primary bin on both axes) only together with both single-axis neighbours
\* on the same sides: the bin in the diagonal's column and the primary row,
\* and the bin in the primary column and the diagonal's row; the diagonal is
\* one cell away on each axis.
C29_DiagonalWithBothNeighbours ==
  [](last.op = "_get_bins_idxs" /\ InsideArena(last.pos) =>
       LET i == CellOf(last.pos[1])
           j == CellOf(last.pos[2])
       IN  \A d \in Returned :
             (d[1] # i /\ d[2] # j) =>
               /\ d[1] \in {i - 1, i + 1}
               /\ d[2] \in {j - 1, j + 1}
               /\ <<d[1], j>> \in Returned
               /\ <<i, d[2]>> \in Returned)

----------------------------------------------------------------------------
(* Properties of the pools *)

\* the fire requests of the last step, if it was one that makes any
LastShots ==
  IF last.op \in {"CollisionSpace.tick", "Input.tick", "Main.tick"}
  THEN last.shots ELSE <<>>

\* C22: every object is in exactly one pool, once; the hostile pool holds
\* baddies, upgrades and hostile bullets only, the player-bullet pool holds
\* player bullets only; the bullets of the player's shots are player
\* bullets and never in the hostile pool, those of a Shooter are hostile
\* and never in the player-bullet pool; the player is in neither pool.
C22_OnePoolEach ==
  /\ player.kind = "Player"
  /\ \A k \in 1 .. Len(baddies) :
       \/ IsBaddie(baddies[k])
       \/ IsUpgrade(baddies[k])
       \/ IsBullet(baddies[k]) /\ baddies[k].side # "good"
  /\ \A k \in 1 .. Len(bullets) :
       IsBullet(bullets[k]) /\ bullets[k].side = "good"
  /\ Cardinality(Ids(baddies) \cup Ids(bullets)) = Len(baddies) + Len(bullets)
  /\ \A n \in 1 .. Len(LastShots) :
       \A m \in 1 .. Len(LastShots[n].bullets) :
         LET b == LastShots[n].bullets[m]
         IN  IF LastShots[n].by = 0
             THEN b.side = "good" /\ b.id \notin Ids(baddies)
             ELSE b.side # "good" /\ b.id \notin Ids(bullets)

\* C22 witness: a Shooter has just fired while bullets of the player are in
\* flight: its bullets are in the hostile pool, next to the Shooter
C22_Witness ==
  /\ last.op = "CollisionSpace.tick"
  /\ \E n \in 1 .. Len(last.shots) :
       /\ last.shots[n].by # 0
       /\ last.shots[n].by \in Ids(baddies)
       /\ Len(last.shots[n].bullets) > 0
       /\ \A m \in 1 .. Len(last.shots[n].bullets) :
            last.shots[n].bullets[m].id \in Ids(baddies)
  /\ Len(bullets) > 0

----------------------------------------------------------------------------
(* Properties of the creation of baddies *)

\* the baddies the step has created
NewBaddies == SelectSeq(baddies', LAMBDA e : IsBaddie(e) /\ e.id >= nextId)

\* the orders in all spawn queues
Queued(sps) == SumSeq([k \in 1 .. 4 |-> Len(sps[k - 1].queue)])

\* the number of orders the step has popped from the spawn queues: in a
\* Main.tick the orders that were queued after the level's tick and are
\* not queued any more
Popped ==
  IF last'.op = "Main.tick"
  THEN SumSeq([k \in 1 .. 4 |-> Len(last'.orders[k - 1])]) - Queued(spawn_points')
  ELSE 0

\* in a Main.tick each spawn point has popped at most the oldest of its
\* orders and the baddies created are those orders, one for one, each of
\* the order's type and at its spawn point
TickReleases ==
  /\ Len(NewBaddies) = Len(last'.released)
  /\ \A n \in 1 .. Len(last'.released) :
       LET s == last'.released[n].spawn
       IN  /\ Len(last'.orders[s]) > 0
           /\ spawn_points'[s].queue = Tail(last'.orders[s])
           /\ NewBaddies[n].id = last'.released[n].id
           /\ NewBaddies[n].kind = Head(last'.orders[s])
           /\ NewBaddies[n].pos = SpawnPos(s)
  /\ \A s \in SpawnIdx :
       (\A n \in 1 .. Len(last'.released) : last'.released[n].spawn # s)
         => spawn_points'[s].queue = last'.orders[s]

\* C23 (as claimed): no step adds a baddie to the hostile pool without
\* popping an order from a spawn queue: the baddies a step creates are as
\* many as the orders it pops, and only a Main.tick creates any.
C23_OnlyFromOrders ==
  [][ /\ Len(NewBaddies) = Popped
      /\ last'.op = "Main.tick" => TickReleases ]_vars

\* C23 (amended): a Main.tick creates baddies only by popping orders; the
\* F7 key creates one Wiggler at a spawn point without popping an order;
\* no other step creates a baddie.
C23_FromOrdersOrF7 ==
  [][ CASE last'.op = "Main.tick" -> Len(NewBaddies) = Popped /\ TickReleases
        [] last'.op = "KEYUP" ->
             /\ UNCHANGED spawn_points
             /\ IF last'.key = "F7"
                THEN /\ Len(NewBaddies) = 1
                     /\ NewBaddies[1].kind = "Wiggler"
                     /\ \E s \in SpawnIdx : NewBaddies[1].pos = SpawnPos(s)
                     /\ baddies' = Append(baddies, NewBaddies[1])
                ELSE NewBaddies = <<>> /\ UNCHANGED baddies
        [] OTHER -> NewBaddies = <<>> ]_vars

\* C23 witness: the level's tick has queued a wave and a spawn point has
\* released the first of its orders in the same Main.tick
C23_Witness ==
  /\ last.op = "Main.tick"
  /\ Len(last.released) = 1
  /\ Len(last.orders[last.released[1].spawn]) > 1
  /\ Len(spawn_points[last.released[1].spawn].queue) > 0
  /\ last.before.queued = 0
  /\ last.released[1].id \in Ids(baddies)

----------------------------------------------------------------------------
(* Properties of the frame-rate check *)

\* C24: in a frame whose measured FPS is below the floor the active level
\* and all spawn points are paused when the tick runs, and the tick spawns
\* no baddie and queues no order; in a frame whose FPS is at or above the
\* floor while the level or a spawn point was paused, the level and the
\* spawn points are resumed when the tick runs.
C24_SlowFramesPause ==
  [](last.op = "frame" /\ last.before.active =>
       IF last.slow
       THEN /\ last.checked.level # 0
            /\ last.checked.spawns = SpawnIdx
            /\ last.released = <<>>
            /\ \A s \in SpawnIdx :
                 last.orders[s] \in {last.checked.queues[s], <<>>}
       ELSE (last.before.level # 0 \/ last.before.spawns # {})
              => last.checked.level = 0 /\ last.checked.spawns = {})

----------------------------------------------------------------------------
(* Properties of the insertion *)

\* the kinds of entity the pools hold
IsEntity(obj) == IsBaddie(obj) \/ IsBullet(obj) \/ IsUpgrade(obj)

\* C25: CollisionSpace.add of an object that is no baddie, bullet or
\* upgrade raises an assertion error and leaves both pools unchanged; a
\* baddie or a bullet is added without an error.
C25_UnknownKindIsFatal ==
  [][ last'.op = "CollisionSpace.add" =>
        /\ ~IsEntity(last'.obj) =>
              last'.raised /\ UNCHANGED <<baddies, bullets>>
        /\ IsBaddie(last'.obj) \/ IsBullet(last'.obj) =>
              /\ ~last'.raised
              /\ Len(baddies') + Len(bullets') = Len(baddies) + Len(bullets) + 1
    ]_vars

----------------------------------------------------------------------------
(* Properties of the drawing process *)

\* C26: drawing changes no simulation state: positions, headings, pools,
\* queues, score, shields, the exploding flag, the explosion progress and
\* the level indices are after a draw what they were before.
C26_DrawIsPure ==
  [][ last'.op = "Player.draw" =>
        UNCHANGED <<player, baddies, bullets, spawn_points, levels, lev_i,
                    winner>> ]_vars

----------------------------------------------------------------------------
(* Properties of the player's death *)

\* what the death reset leaves behind: the player whole again and at the
\* centre, both pools empty, level 1 started at the current clock
ResetDone ==
  /\ ~player'.exploding
  /\ player'.expl_prog = 0
  /\ player'.pos = <<Width \div 2, Height \div 2>>
  /\ player'.score = 0
  /\ baddies' = <<>>
  /\ bullets' = <<>>
  /\ lev_i' = 0
  /\ levels'[1].start_time = now

\* C27 (as claimed): the reset runs in the first Main.tick that starts
\* with the player exploding.
C27_ResetAtOnce ==
  [][ last'.op = "Main.tick" /\ player.exploding => ResetDone ]_vars

\* where a wiggler of heading 0, 1, 2 or 3 quarter turns is after one
\* move_forward
Ahead(e) ==
  <<e.pos[1] + Cos(e.traj) * BaddieSpeed(e.kind),
    e.pos[2] + Sin(e.traj) * BaddieSpeed(e.kind)>>

\* strictly inside the arena, so that the wall bounce leaves it alone
ClearOfWalls(r) ==
  r.left > 0 /\ r.top > 0 /\ r.right < Width /\ r.bottom < Height

\* C27 (amended): the reset runs in the first Main.tick that starts with
\* the player exploding and the explosion progress at 30 or more; a tick
\* that starts with the player exploding and the progress below 30 leaves
\* the player exploding, where and as it was, and handles no input, while
\* the wigglers move on, the spawn points release orders and the level
\* index is kept.
C27_ResetAfterExplosion ==
  [][ last'.op = "Main.tick" /\ player.exploding =>
        IF player.expl_prog >= ExplLimit
        THEN ResetDone
        ELSE /\ player'.exploding
             /\ player'.expl_prog = player.expl_prog
             /\ player'.pos = player.pos
             /\ player'.score >= player.score
             /\ last'.shots = <<>> \/ \A n \in 1 .. Len(last'.shots) :
                                        last'.shots[n].by # 0
             /\ lev_i' >= lev_i
             /\ \A k \in 1 .. Len(baddies) :
                  LET e == baddies[k]
                  IN  (/\ e.kind \in {"Wiggler", "FastWiggler"}
                       /\ e.id \in Ids(baddies')
                       /\ ClearOfWalls(FreshRect([e EXCEPT !.pos = Ahead(e)])))
                        => Obj(baddies', e.id).pos = Ahead(e)
             /\ Len(NewBaddies) = Popped
             /\ TickReleases
    ]_vars

\* C27 witness: a tick that started with the player exploding has not
\* reset the game: the player is still exploding where it died, the
\* FastWiggler has moved on and a spawn point has released a baddie
C27_Witness ==
  /\ last.op = "Main.tick"
  /\ last.exploding
  /\ ~last.reset
  /\ player.exploding
  /\ player.pos = <<110, 70>>
  /\ Len(last.released) = 1
  /\ 90 \in Ids(baddies)
  /\ Obj(baddies, 90).pos = <<100, 32>>

----------------------------------------------------------------------------
(* Properties of one pass of CollisionSpace.tick over the pools *)

\* how often the identity occurs in a list of identities
Times(seq, id) == Cardinality({k \in 1 .. Len(seq) : seq[k] = id})

\* the objects of both pools
Pools == baddies \o bullets
PoolsAfter == baddies' \o bullets'

\* C28: one CollisionSpace.tick advances every object that is in one of the
\* pools when the tick starts exactly once, and none that the tick appends:
\* the advanced identities are those of the two pools at the start, each
\* once; a bullet that stays is one step of its speed further; and a bullet
\* the tick creates is where the shot put it.
C28_EachAdvancedOnce ==
  [][ (last'.op = "CollisionSpace.tick" /\ obs'.ticks # obs.ticks) =>
        LET T == last'.ticked
        IN  /\ Len(T) = Len(Pools)
            /\ \A k \in 1 .. Len(Pools) : Times(T, Pools[k].id) = 1
            /\ \A k \in 1 .. Len(T) : T[k] < nextId
            /\ \A k \in 1 .. Len(PoolsAfter) :
                 LET e == PoolsAfter[k]
                 IN  IsBullet(e) =>
                       IF e.id \in Ids(Pools)
                       THEN e.pos = Bullet_tick(Obj(Pools, e.id)).pos
                       ELSE \E n \in 1 .. Len(last'.shots) :
                              e \in Range(last'.shots[n].bullets)
      ]_vars

\* C28 witness: a tick over four hostile objects and two player bullets in
\* which two hostile bullets and the later player bullet left the arena, the
\* Shooter below them fired, and the earlier player bullet was advanced
C28_Witness ==
  /\ last.op = "CollisionSpace.tick"
  /\ last.ticked = <<4, 3, 2, 1, 6, 5>>
  /\ Ids(baddies) \cap {2, 4} = {}
  /\ Ids(bullets) = {5}
  /\ bullets[1].pos = <<108, 90>>
  /\ \E k \in 1 .. Len(baddies) : IsBullet(baddies[k]) /\ baddies[k].id >= 7

----------------------------------------------------------------------------
(* Properties of the scan of one bin *)

\* The first loop inserts each hostile object into its bin right after its
\* tick, so the place of an identity in the list of advanced identities is
\* its place in the order of insertion
InsertedAt(id) == CHOOSE k \in 1 .. Len(last'.ticked) : last'.ticked[k] = id

\* the baddies left in the bins after the tick, and those shot by the kills
\* after the n-th, with the rectangles the scans compare
Survivors ==
  {[id |-> baddies'[k].id, pos |-> baddies'[k].pos,
    rect |-> BuildRect(baddies'[k])] :
     k \in {j \in 1 .. Len(baddies') :
              IsBaddie(baddies'[j]) /\ baddies'[j].id < nextId}}
ShotAfter(n) ==
  {[id |-> last'.kills[m].target, pos |-> last'.kills[m].pos,
    rect |-> last'.kills[m].rect] : m \in n + 1 .. Len(last'.kills)}

\* the other baddies in the bin of the n-th kill that its bullet collides
\* with as well
BulletRivals(n) ==
  {x \in Survivors \cup ShotAfter(n) :
     /\ GetSimpleBinsIdxs(x.pos) = GetSimpleBinsIdxs(last'.kills[n].pos)
     /\ CollidePoint(x.rect, last'.kills[n].at)}

\* the other baddies in the bin of the i-th event of the player's scan that
\* collide with the player as well
PlayerRivals(i) ==
  {x \in Survivors \cup ShotAfter(0) :
     /\ GetSimpleBinsIdxs(x.pos) = last'.events[i].bin
     /\ CollideRect(x.rect, BuildRect(player'))}

ScanStep == last'.op = "CollisionSpace.tick" /\ obs'.ticks # obs.ticks

\* C30 as stated: the objects of a bin are visited in the order of their
\* insertion, so that of several that qualify the earliest inserted is hit:
\* the baddie a bullet kills was inserted before every other baddie of the
\* bin the bullet collides with, the object that hits the player before every
\* other baddie of the bin that collides with the player, and the hits and
\* pickups of the player in one bin happen in the order of insertion.
C30_EarliestInsertedIsHit ==
  [][ ScanStep =>
        /\ \A n \in 1 .. Len(last'.kills) : \A x \in BulletRivals(n) :
              InsertedAt(last'.kills[n].target) < InsertedAt(x.id)
        /\ \A i \in 1 .. Len(last'.events) :
              /\ last'.events[i].ev = "hit" =>
                   \A x \in PlayerRivals(i) :
                     InsertedAt(last'.events[i].id) < InsertedAt(x.id)
              /\ \A j \in i + 1 .. Len(last'.events) :
                   last'.events[j].bin = last'.events[i].bin =>
                     InsertedAt(last'.events[i].id) < InsertedAt(last'.events[j].id)
      ]_vars

\* C30 (amended): the objects of a bin are visited in the reverse of the
\* order of their insertion, so that of several that qualify the latest
\* inserted is hit.
C30_LatestInsertedIsHit ==
  [][ ScanStep =>
        /\ \A n \in 1 .. Len(last'.kills) : \A x \in BulletRivals(n) :
              InsertedAt(last'.kills[n].target) > InsertedAt(x.id)
        /\ \A i \in 1 .. Len(last'.events) :
              /\ last'.events[i].ev = "hit" =>
                   \A x \in PlayerRivals(i) :
                     InsertedAt(last'.events[i].id) > InsertedAt(x.id)
              /\ \A j \in i + 1 .. Len(last'.events) :
                   last'.events[j].bin = last'.events[i].bin =>
                     InsertedAt(last'.events[i].id) > InsertedAt(last'.events[j].id)
      ]_vars

\* C30 witness: a bullet arrived under two wigglers of one bin and killed
\* the one inserted later, the other is still there; two wigglers of the
\* player's bin reached the player, the one inserted later took the shield,
\* the other is still there
C30_Witness ==
  /\ last.op = "CollisionSpace.tick"
  /\ last.ticked = <<4, 3, 2, 1, 5>>
  /\ Len(last.kills) = 1 /\ last.kills[1].target = 1
  /\ 2 \in Ids(baddies)
  /\ GetSimpleBinsIdxs(Obj(baddies, 2).pos) = GetSimpleBinsIdxs(last.kills[1].pos)
  /\ CollidePoint(BuildRect(Obj(baddies, 2)), last.kills[1].at)
  /\ last.hits = <<3>>
  /\ 4 \in Ids(baddies)
  /\ GetSimpleBinsIdxs(Obj(baddies, 4).pos) = last.events[1].bin
  /\ CollideRect(BuildRect(Obj(baddies, 4)), BuildRect(player))
  /\ player.shields = 0 /\ ~player.exploding

----------------------------------------------------------------------------
(* Properties of the wall bounce *)

\* the walls an object's rectangle is at or beyond, as _tick_baddie tests them
AtSideWall(e) == FreshRect(e).left <= 0 \/ FreshRect(e).right >= Width
AtEndWall(e) == FreshRect(e).top <= 0 \/ FreshRect(e).bottom >= Height

\* C31: the wall bounce of an object at or beyond a wall, at any distance and
\* at one wall or two, comes to an end; it turns the heading to pi minus the
\* heading when the left or right wall is violated and negates it when the
\* upper or lower wall is, once each, and leaves it otherwise; it moves the
\* object only along the violated axes; and the rectangle of the object, the
\* cached one included, then lies inside the arena on both axes.
C31_BounceContains ==
  [][ last'.op = "bounce" =>
        LET e == last'.before
            a == last'.after
            q == IF AtSideWall(e) THEN 2 - e.traj ELSE e.traj
        IN  /\ a = baddies'[1]
            /\ a.traj = IF AtEndWall(e) THEN -q ELSE q
            /\ ~AtSideWall(e) => a.pos[1] = e.pos[1]
            /\ ~AtEndWall(e) => a.pos[2] = e.pos[2]
            /\ InArena(FreshRect(a))
            /\ a.rect = FreshRect(a)
            /\ ~AtSideWall(a) /\ ~AtEndWall(a)
      ]_vars

\* C31 witness: a Wiggler 30 beyond the left wall and 31 beyond the lower
\* wall has been brought back inside, turned about on both axes
C31_Witness ==
  /\ last.op = "bounce"
  /\ last.before.kind = "Wiggler"
  /\ last.before.pos = <<-30, 131>>
  /\ last.before.traj = 1
  /\ last.after.traj = -1
  /\ last.after.pos[1] > 0 /\ last.after.pos[1] < 10
  /\ last.after.pos[2] < Height /\ last.after.pos[2] > Height - 10
  /\ InArena(FreshRect(last.after))

----------------------------------------------------------------------------
(* Properties of the pause flags *)

\* C32: when a Main.tick starts with a level active, the spawn points are
\* paused if and only if that level is paused: all of them with a paused
\* level, none of them with a level that is not paused.
C32_SpawnsPausedWithLevel ==
  [](last.op = "frame" /\ last.checked.active =>
       IF last.checked.level # 0
       THEN last.checked.spawns = SpawnIdx
       ELSE last.checked.spawns = {})

----------------------------------------------------------------------------
(* Properties of the spawn queues over time *)

\* a frame with the frame rate at or above the floor in which the draw of
\* spawn point s succeeded
LuckyFrame(s) == last.op = "frame" /\ ~last.slow /\ last.lucky = s

\* C33: when frames at or above the frame-rate floor with a successful draw
\* at a spawn point come again and again, the first order of that spawn
\* point's queue, if there is one, is eventually spawned or dropped by a
\* death reset: no queue stays stuck.
C33_QueuesDrain ==
  \A s \in SpawnIdx :
    []<>LuckyFrame(s) =>
      ((Len(spawn_points[s].queue) > 0) ~> (last.op = "frame" /\ s \in last.served))

----------------------------------------------------------------------------
(* Properties of the order of the waves *)

\* the orders that the entries a .. b of a progression put into the queue of
\* spawn point s, in the order of the entries
RECURSIVE WaveOrders(_, _, _, _)
WaveOrders(prog, a, b, s) ==
  IF a > b THEN <<>>
  ELSE (IF prog[a].spawn = s THEN [k \in 1 .. prog[a].count |-> prog[a].type]
        ELSE <<>>) \o WaveOrders(prog, a + 1, b, s)

\* C34: whatever the order of the calls of tick, pause, resume and
\* jump_to_next_wave on a started level, the index of the current entry never
\* goes back, and a call that moves it from i to j appends to the spawn
\* queues exactly the orders of the entries i .. j-1, entry by entry in index
\* order, and no call appends anything else: from start() to done() every
\* entry is enqueued once, none is skipped, none comes before an earlier one.
\* start() sets the index to 0 and queues nothing.
C34_EachWaveOnceInOrder ==
  [][ LET L == levels[1]
          i == L.prog_i
          j == levels'[1].prog_i
      IN  IF last'.op = "Level.start" /\ last' # last
          THEN j = 0 /\ spawn_points' = spawn_points
          ELSE /\ j >= i
               /\ j <= Len(L.progression)
               /\ levels'[1].progression = L.progression
               /\ \A s \in SpawnIdx :
                    spawn_points'[s].queue =
                      spawn_points[s].queue \o WaveOrders(L.progression, i + 1, j, s)
    ]_vars

\* C34 witness: the three entries of the second progression have all been
\* enqueued, the last by jump_to_next_wave after a pause and a resume: each
\* queue holds its orders once, in the order of the entries
C34_Witness ==
  /\ last.op = "Level.jump_to_next_wave"
  /\ levels[1].progression = ProgB
  /\ Level_done(levels[1])
  /\ obs.pauseTotal > 0
  /\ spawn_points[0].queue = <<"Wiggler", "Wiggler">>
  /\ spawn_points[1].queue = <<"Homer", "Shooter", "Shooter">>
  /\ spawn_points[2].queue = <<>> /\ spawn_points[3].queue = <<>>
----------------------------------------------------------------------------
(* Properties of the partition against the test of every pair *)

\* the player bullets left after the tick that the third loop advanced
BulletsLeft ==
  {bullets'[k] : k \in {j \in 1 .. Len(bullets') : bullets'[j].id < nextId}}

\* the baddies shot by the bullets that the third loop advanced after b
ShotLater(b) ==
  {[id |-> last'.kills[m].target, pos |-> last'.kills[m].pos,
    rect |-> last'.kills[m].rect] :
     m \in {n \in 1 .. Len(last'.kills) :
              InsertedAt(last'.kills[n].bullet) > InsertedAt(b.id)}}

\* C35: the bins hide no overlap.  A player bullet that is still in its pool
\* after a CollisionSpace.tick hit nothing in it, so its position after the
\* movement lies in the rectangle of no baddie that is still in the hostile
\* pool or that a bullet advanced after it shot, as the test of the bullet
\* against every hostile object would have it.
C35_NoOverlapHidden ==
  [][ ScanStep =>
        \A b \in BulletsLeft : \A x \in Survivors \cup ShotLater(b) :
          ~CollidePoint(x.rect, b.pos)
    ]_vars

----------------------------------------------------------------------------
(* Properties of the progression through the levels *)

\* C36: the level index never exceeds the number of levels; whenever it
\* grows it grows by one, and at the start of that Main.tick the current
\* level was done, every spawn point's queue was empty and the hostile pool
\* held nothing at all; the winner flag becomes true only in such a tick on
\* the last level.
C36_NextLevelOnlyWhenCleared ==
  [][ /\ lev_i' <= Len(levels')
      /\ lev_i' > lev_i =>
           /\ lev_i' = lev_i + 1
           /\ last'.op = "Main.tick"
           /\ Level_done(levels[lev_i + 1])
           /\ \A s \in SpawnIdx : spawn_points[s].queue = <<>>
           /\ baddies = <<>>
      /\ (winner' /\ ~winner) =>
           /\ lev_i = Len(levels) - 1
           /\ lev_i' = Len(levels)
    ]_vars

\* C36 witness: the Main.tick after the one in which the last baddie of the
\* last level was shot has moved past the last level and set the winner flag
C36_Witness ==
  /\ last.op = "Main.tick"
  /\ winner
  /\ lev_i = Len(levels)
  /\ player.score = SceneLastLevel.player.score + BaddieScore("Wiggler")
  /\ baddies = <<>>

----------------------------------------------------------------------------
(* Properties of the player after the death reset *)

\* C37: a Main.tick that runs the death reset ends with a fresh player:
\* score 0, gun power 0, speed 4, no shield, not exploding, explosion
\* progress 0, whatever the player collected before the reset, during the
\* explosion included.
C37_FreshAfterReset ==
  [][(last'.op = "Main.tick" /\ last'.reset) =>
       /\ player'.score = 0
       /\ player'.gun_power = 0
       /\ player'.speed = 4
       /\ player'.shields = 0
       /\ ~player'.exploding
       /\ player'.expl_prog = 0]_vars

----------------------------------------------------------------------------
(* Properties of the bins against the hostile pool *)

\* C38: in a CollisionSpace.tick, from the end of the first loop on, every
\* reference in a bin is to an object of the hostile pool that is in no
\* other bin and whose position has this bin as its primary bin; no
\* _remove_baddie fails to find its object in that bin and in the pool; and
\* what has left the hostile pool by the end of the tick is in no bin.
C38_BinsMirrorPool ==
  [][ ScanStep =>
        /\ ~last'.raised
        /\ ~last'.unsound
        /\ BinsSound([bins |-> bins', baddies |-> baddies'])
        /\ \A id \in Ids(baddies) \ Ids(baddies') : \A ij \in BinIdx :
             id \notin Range(bins'[ij])
    ]_vars

\* C38 witness: a tick in which a bullet shot a baddie and the player ran
\* into another, both removed through _remove_baddie; objects are left in
\* the bins, and the upgrades dropped are in the hostile pool but in no bin
C38_Witness ==
  /\ last.op = "CollisionSpace.tick"
  /\ Len(last.kills) > 0
  /\ Len(last.hits) > 0
  /\ ~last.raised
  /\ \E ij \in BinIdx : bins[ij] # <<>>
  /\ \E k \in 1 .. Len(baddies) :
       IsUpgrade(baddies[k]) /\ \A ij \in BinIdx : baddies[k].id \notin Range(bins[ij])

----------------------------------------------------------------------------
(* Properties of the list a bin query returns *)

\* C39: the list of bins that one call of _get_bins_idxs returns holds no
\* bin twice, at any position, so that the scan that follows the list
\* visits no bin twice.
C39_NoBinTwice ==
  [](last.op = "_get_bins_idxs" =>
       \A a, b \in 1 .. Len(last.bins) : a # b => last.bins[a] # last.bins[b])

=============================================================================
